---- MODULE Spec2Model ----
(***************************************************************************)
(* Model of the disaster-recovery workflow of the GitLab admin bot:        *)
(* RecoveryManager.initiate_recovery (src/restore/recovery.py) and         *)
(* RestoreTester.run_restore_test (src/restore/tester.py).                 *)
(*                                                                         *)
(* Coroutines run on one event loop and interleave only at await points.   *)
(* Each action below is the code between two consecutive suspension       *)
(* points of one coroutine: it resumes from the awaited call with one of   *)
(* that call's outcomes and runs the synchronous code up to the next       *)
(* await.  The awaited collaborators (alert manager, cloud SDK, remote     *)
(* shell, HTTP client) return or raise; what they raise is an input.       *)
(***************************************************************************)
EXTENDS Integers, Sequences, FiniteSets, TLC

(***************************************************************************)
(* Bounds of the model.                                                    *)
(***************************************************************************)
MaxCalls == 2
MaxPolls == 1
MaxConnects == 1
MaxVolumes == 1
MaxTests == 1
MaxTimeout == 11
MaxCommands == 2
MaxEvents == 3
MaxTagged == 3
MaxResults == 4

(***************************************************************************)
(* Python's None, one per field type.                                      *)
(***************************************************************************)
None == "<None>"
NoneTime == -1
NoneId == -1

(***************************************************************************)
(* class RecoveryStep: the closed, ordered enum.                           *)
(***************************************************************************)
PROVISION_SERVER == "provision_server"
ATTACH_VOLUMES == "attach_volumes"
INSTALL_GITLAB == "install_gitlab"
RESTORE_CONFIG == "restore_config"
RESTORE_BACKUP == "restore_backup"
RECONFIGURE == "reconfigure"
VERIFY == "verify"
UPDATE_DNS == "update_dns"

RecoveryStep ==
    << PROVISION_SERVER, ATTACH_VOLUMES, INSTALL_GITLAB, RESTORE_CONFIG,
       RESTORE_BACKUP, RECONFIGURE, VERIFY, UPDATE_DNS >>

StepIndex(s) == CHOOSE i \in DOMAIN RecoveryStep : RecoveryStep[i] = s

(***************************************************************************)
(* Messages of the exceptions, as str(e) gives them.  The remote shell     *)
(* raises exceptions with a text and exceptions without one (a timeout     *)
(* while reading a command's output is raised without arguments, and its   *)
(* str() is the empty text).                                               *)
(***************************************************************************)
SshMsgs == {"", "ssh error"}
CloudMsgs == {"cloud api error"}
AlertMsgs == {"alert delivery error"}
AlreadyInProgress == "Recovery already in progress"
ActionFailed == "Hetzner action failed: provider error"
ActionTimedOut == "Action timed out after 300s"
SshTimedOut == "SSH not available after 300s"
NoArchives == "No backup archives found in Borg repository"
NoTimestamp == "Could not determine backup timestamp"

(***************************************************************************)
(* The calls a step makes on the outside world.  An operation is the       *)
(* effect it has and the set of messages with which it can raise.          *)
(***************************************************************************)
Eff(kind, name, sev, step) == [kind |-> kind, name |-> name, sev |-> sev, step |-> step]

Op(e, errs) == [e |-> e, errs |-> errs]

Cloud(name) == Op(Eff("cloud", name, "-", "-"), CloudMsgs)

Poll == Op(Eff("cloud", "actions.get_by_id", "-", "-"),
           CloudMsgs \cup {ActionFailed, ActionTimedOut})

Connect == Op(Eff("tcp", "connect_ex:22", "-", "-"), {SshTimedOut})

Ssh(cmd) == Op(Eff("ssh", cmd, "-", "-"), SshMsgs)

SshOr(cmd, msg) == Op(Eff("ssh", cmd, "-", "-"), SshMsgs \cup {msg})

Http(path) == Op(Eff("http", path, "-", "-"), {})

Sleep(secs) == Op(Eff("sleep", secs, "-", "-"), {})

AlertEff(sev, title, step) == Eff("alert", title, sev, step)

SendAlert(sev, title, step) == Op(AlertEff(sev, title, step), AlertMsgs)

Close == << Eff("ssh.close", "close", "-", "-") >>

Rep(x, n) == [i \in 1..n |-> x]

Effects(ops) == [i \in DOMAIN ops |-> ops[i].e]

(***************************************************************************)
(* The runs of a straight-line body: it raises at the k-th operation with  *)
(* one of that operation's messages, or it runs to the end; fin is what    *)
(* the body's finally clause does on either exit.                          *)
(***************************************************************************)
Run(ok, exc, eff, created) == [ok |-> ok, exc |-> exc, eff |-> eff, created |-> created]

\* A variant in which the finally clause is an epilogue of the body: it is
\* reached only when the body runs to its end.
RunsWithEpilogue(ops, fin, createdAt) ==
    UNION { { Run(FALSE, m, Effects(SubSeq(ops, 1, k)), k > createdAt)
              : m \in ops[k].errs } : k \in DOMAIN ops }
    \cup { Run(TRUE, "", Effects(ops) \o fin, Len(ops) >= createdAt) }

Runs(ops, fin, createdAt) ==
    UNION { { Run(FALSE, m, Effects(SubSeq(ops, 1, k)) \o fin, k > createdAt)
              : m \in ops[k].errs } : k \in DOMAIN ops }
    \cup { Run(TRUE, "", Effects(ops) \o fin, Len(ops) >= createdAt) }

\* A body that creates no server.
BodyRuns(ops, fin) == Runs(ops, fin, Len(ops) + 1)

(***************************************************************************)
(* The step bodies of RecoveryManager, each as the set of its runs.        *)
(***************************************************************************)
\* _provision_recovery_server: list the keys, create the server, poll the
\* creation action, wait for port 22.  The server exists at the provider
\* from the moment servers.create (the 2nd operation) has returned.
ProvisionOps(n, m) ==
    << Cloud("ssh_keys.get_all"), Cloud("servers.create") >>
    \o Rep(Poll, n) \o Rep(Connect, m) \o << Sleep("5") >>

ProvisionRuns ==
    UNION { Runs(ProvisionOps(n, m), << >>, 2) : n \in 1..MaxPolls, m \in 1..MaxConnects }

\* _attach_volumes: vols[i] is TRUE when the i-th tagged volume is attached
\* to another server (it is detached first).
RECURSIVE AttachOps(_)
AttachOps(vols) ==
    IF vols = << >> THEN << >>
    ELSE (IF Head(vols) THEN << Cloud("volumes.detach"), Poll >> ELSE << >>)
         \o << Cloud("volumes.attach"), Poll >>
         \o AttachOps(Tail(vols))

VolumeLists == UNION { [1..n -> BOOLEAN] : n \in 0..MaxVolumes }

AttachRuns ==
    UNION { BodyRuns(<< Cloud("volumes.get_all") >> \o AttachOps(vols), << >>)
            : vols \in VolumeLists }

\* _install_gitlab
InstallOps ==
    << Ssh("apt-get update && apt-get upgrade -y"),
       Ssh("apt-get install -y curl openssh-server ca-certificates tzdata perl"),
       Ssh("apt-get install -y postfix"),
       Ssh("curl script.deb.sh | bash"),
       Ssh("apt-get install -y gitlab-ce"),
       Ssh("gitlab-ctl stop") >>

InstallRuns == BodyRuns(InstallOps, Close)

\* _restore_config: an empty archive name raises NoArchives.
RestoreConfigOps ==
    << Ssh("mkdir -p /tmp/gitlab-restore"),
       SshOr("borg list --last 1", NoArchives),
       Ssh("borg extract etc/gitlab/"),
       Ssh("cp gitlab.rb"),
       Ssh("cp gitlab-secrets.json"),
       Ssh("chmod 600") >>

RestoreConfigRuns == BodyRuns(RestoreConfigOps, Close)

\* _restore_backup: an empty timestamp raises NoTimestamp.
RestoreBackupOps ==
    << Ssh("borg list --last 1"),
       Ssh("borg extract --pattern *.tar"),
       Ssh("find -exec cp"),
       SshOr("ls -1 | head -1 | xargs basename | sed", NoTimestamp),
       Ssh("gitlab-ctl stop puma"),
       Ssh("gitlab-ctl stop sidekiq"),
       Ssh("gitlab-backup restore") >>

RestoreBackupRuns == BodyRuns(RestoreBackupOps, Close)

\* _reconfigure_gitlab
ReconfigureOps ==
    << Ssh("gitlab-ctl reconfigure"), Ssh("gitlab-ctl restart"), Sleep("60") >>

ReconfigureRuns == BodyRuns(ReconfigureOps, Close)

\* _verify_recovery: the issues found are accumulated; a probe that raises
\* is an issue, not an exception of the step.
ProbeResults == {"200", "503", "raised"}

VerifyIssues(down, failure, health, readiness) ==
    (IF down THEN << "Some GitLab services are down" >> ELSE << >>)
    \o (IF failure THEN << "GitLab check reported issues" >> ELSE << >>)
    \o (IF health = "200" THEN << >> ELSE << "Health check " \o health >>)
    \o (IF readiness = "200" THEN << >> ELSE << "Readiness check " \o readiness >>)

VerifyOps(issues) ==
    << Ssh("gitlab-ctl status"), Ssh("gitlab-rake gitlab:check"),
       Http("/-/health"), Http("/-/readiness") >>
    \o (IF issues # << >>
        THEN << SendAlert("warning", "Recovery Verification Warnings", "-") >>
        ELSE << >>)

\* client.get(url): what the endpoint answers, on a client that is open; on a
\* client that has left its `async with` block the request raises before
\* anything is sent.
ClientGet(open, answer) == IF open THEN answer ELSE "raised"

\* The runs for a service status, a check output and the endpoints' answers:
\* the health probe is made inside the `async with` block, the readiness
\* probe after it.
VerifyRunsGiven(down, failure, health, readiness) ==
    BodyRuns(VerifyOps(VerifyIssues(down, failure, ClientGet(TRUE, health),
                                    ClientGet(FALSE, readiness))), Close)

VerifyRuns ==
    UNION { VerifyRunsGiven(d, f, h, r)
            : d \in BOOLEAN, f \in BOOLEAN, h \in ProbeResults, r \in ProbeResults }

\* update_dns: the step body is one alert.
UpdateDnsRuns ==
    BodyRuns(<< SendAlert("warning", "Action Required: Update DNS", "-") >>, << >>)

StepRuns(step) ==
    CASE step = PROVISION_SERVER -> ProvisionRuns
      [] step = ATTACH_VOLUMES -> AttachRuns
      [] step = INSTALL_GITLAB -> InstallRuns
      [] step = RESTORE_CONFIG -> RestoreConfigRuns
      [] step = RESTORE_BACKUP -> RestoreBackupRuns
      [] step = RECONFIGURE -> ReconfigureRuns
      [] step = VERIFY -> VerifyRuns
      [] step = UPDATE_DNS -> UpdateDnsRuns

(***************************************************************************)
(* State.                                                                  *)
(*   heap       the RecoveryState objects ever created, by identity        *)
(*   current    RecoveryManager._current_recovery: 0 (None) or an identity *)
(*   calls      the initiate_recovery coroutines: arguments, local state   *)
(*              and position                                               *)
(*   alerts     per call, the send_alert calls it made, in order           *)
(*   ext        per call, the kinds of outside calls its steps made        *)
(*   stamped    per RecoveryState, how often completed_at was assigned     *)
(*   servers    the instances created at the cloud provider                *)
(*   now        the clock read by datetime.now()                           *)
(*   tests      the run_restore_test coroutines: position, the local       *)
(*              `server`, the result object, the alerts sent, and what the *)
(*              call did at the provider (made: the instance whose         *)
(*              creation request succeeded, deletes: the instances for     *)
(*              which servers.delete was called, stepExc: what the         *)
(*              workflow step raised)                                      *)
(*   poll       one invocation of a wait loop (_wait_for_action or         *)
(*              _wait_for_ssh): its arguments, position, the seconds       *)
(*              elapsed since its start_time, what it did and how it ended *)
(*   mon        one invocation of BackupMonitor.check: what the remote     *)
(*              commands gave, the locals of check, and how it ended       *)
(*   integ      one invocation of BackupMonitor.verify_integrity: the      *)
(*              values given to the integrity gauge, the remote commands   *)
(*              run, the alerts sent, and how it ended                     *)
(*   sshc       one SSHClient: its _client, how many commands it has run,  *)
(*              what the last one was given and how it ended               *)
(*   am         one AlertManager: its settings, _sent_alerts and           *)
(*              _alert_history, the clock it reads, its send_alert calls   *)
(*              (arguments, position, what each channel did, the value     *)
(*              returned) and the clear_cooldown calls made                *)
(*   att        one invocation of RecoveryManager._attach_volumes: the     *)
(*              volumes listed, the one being handled, and the requests    *)
(*              and waits made so far, each with its outcome               *)
(*   body       the step body that ran last, on its own: whose it is,      *)
(*              which step, and the calls it made up to its exit           *)
(*   twin       the _wait_for_action of RecoveryManager and that of        *)
(*              RestoreTester, called with the same timeout and given the  *)
(*              same provider answers after the same times                 *)
(***************************************************************************)
VARIABLES heap, current, calls, alerts, ext, stamped, servers, now, tests,
          poll, mon, integ, sshc, am, att, body, twin, base

vars == << heap, current, calls, alerts, ext, stamped, servers, now, tests,
           poll, mon, integ, sshc, am, att, body, twin, base >>

\* The state of the services beside the workflows, the wait loops and check().
serviceVars == << integ, sshc, am, att, body, twin, base >>

recoveryVars == << heap, current, calls, alerts, ext, stamped >>

workflowVars == << heap, current, calls, alerts, ext, stamped, servers, now, tests >>

\* class RecoveryState, as constructed by RecoveryState()
RecoveryState(t) ==
    [ started_at |-> t, completed_at |-> NoneTime, current_step |-> None,
      completed_steps |-> << >>, failed_step |-> None, error |-> None,
      new_server_id |-> NoneId, new_server_ip |-> None ]

\* A variant of is_complete that counts only a successful end as complete.
is_complete_success_only(s) == s.completed_at # NoneTime /\ s.failed_step = None

\* RecoveryState.is_complete
is_complete(s) == s.completed_at # NoneTime

\* A variant of the check that takes a recovery to be in progress only once
\* its first step has started.
InFlightOnceStarted(cur, h) ==
    cur # 0 /\ ~ is_complete(h[cur]) /\ h[cur].current_step # None

\* The condition of the 'already in progress' check.
InFlight(cur, h) == cur # 0 /\ ~ is_complete(h[cur])

\* The frame of an initiate_recovery coroutine.  raisedStep records the
\* step whose body raised (0 when none did).
Frame(auto, st, pc, exc) ==
    [ auto |-> auto, st |-> st, pc |-> pc, exc |-> exc, raisedStep |-> 0 ]

\* No wait loop has been called; no check has been called.
NoPoll == [ fn |-> "-", pc |-> "idle", timeout |-> 0, elapsed |-> 0,
            log |-> << >>, outcome |-> None ]

NoCheck == [ pc |-> "idle" ]

NoVerify == [ pc |-> "idle" ]

\* No step body has run on its own.
NoBody == [ owner |-> "-", step |-> "-", run |-> Run(TRUE, "", << >>, FALSE) ]

\* _attach_volumes has not been called.
NoAttach == [ pc |-> "idle" ]

\* No AlertManager has been constructed.
NoAlertManager == [ made |-> FALSE ]

\* BaseMonitor.__init__
NewBaseMonitor ==
    [ last_result |-> None, consecutive_failures |-> 0,
      check_counter |-> [ s \in { "ok", "warning", "critical", "unknown" } |-> 0 ],
      recorded |-> << >> ]

\* class SSHClient, as constructed: self._client = None, nothing run yet
NewSshClient ==
    [ client |-> None, commands |-> 0, exit |-> 0, stdout |-> << >>, stderr |-> << >>,
      ran |-> FALSE, raised |-> FALSE, value |-> "", warned |-> FALSE, closed |-> 0 ]

Init ==
    /\ heap = << >>
    /\ current = 0
    /\ calls = << >>
    /\ alerts = << >>
    /\ ext = << >>
    /\ stamped = << >>
    /\ servers = << >>
    /\ now = 0
    /\ tests = << >>
    /\ poll = NoPoll
    /\ mon = NoCheck
    /\ integ = NoVerify
    /\ sshc = NewSshClient
    /\ am = NoAlertManager
    /\ att = NoAttach
    /\ body = NoBody
    /\ twin = [ recovery |-> NoPoll, tester |-> NoPoll ]
    /\ base = NewBaseMonitor

AlertsOf(eff) == SelectSeq(eff, LAMBDA e : e.kind = "alert")

KindsOf(eff) == { eff[i].kind : i \in DOMAIN eff } \ {"alert"}

IpOf(id) == "10.0.0." \o ToString(id)

(***************************************************************************)
(* initiate_recovery, entry: the check, the new state, the first alert.    *)
(***************************************************************************)
\* A variant of the rejection that alerts the admins before raising.
RejectAlerting(auto) ==
    /\ calls' = Append(calls, Frame(auto, 0, "raised", AlreadyInProgress))
    /\ alerts' = Append(alerts, << AlertEff("critical", AlreadyInProgress, "-") >>)
    /\ UNCHANGED << heap, current, stamped, now >>

\* raise RuntimeError("Recovery already in progress")
Reject(auto) ==
    /\ calls' = Append(calls, Frame(auto, 0, "raised", AlreadyInProgress))
    /\ alerts' = Append(alerts, << >>)
    /\ UNCHANGED << heap, current, stamped, now >>

\* state = RecoveryState(); self._current_recovery = state; the call then
\* suspends in the initiation alert.
Admit(auto) ==
    /\ heap' = Append(heap, RecoveryState(now))
    /\ stamped' = Append(stamped, 0)
    /\ current' = Len(heap) + 1
    /\ now' = now + 1
    /\ calls' = Append(calls, Frame(auto, Len(heap) + 1, "init_alert", None))
    /\ alerts' = Append(alerts, << >>)

Initiate(auto) ==
    /\ Len(calls) < MaxCalls
    /\ IF InFlight(current, heap) THEN Reject(auto) ELSE Admit(auto)
    /\ ext' = Append(ext, {})
    /\ UNCHANGED << servers, tests, poll, mon, serviceVars >>

\* A variant of the gate that lets every call through to the steps.
GateOpen(auto) == "step"

\* Where the call goes once the initiation alert has returned.
Gate(auto) == IF ~ auto THEN "approval_alert" ELSE "step"

\* await send_alert("critical", "Disaster Recovery Initiated") returns or
\* raises; then the approval gate, or the try block up to the first step.
InitAlert(c) ==
    /\ calls[c].pc = "init_alert"
    /\ alerts' = [alerts EXCEPT ![c] =
                     Append(@, AlertEff("critical", "Disaster Recovery Initiated", "-"))]
    /\ \/ \E m \in AlertMsgs :
             /\ calls' = [calls EXCEPT ![c].pc = "raised", ![c].exc = m]
             /\ heap' = heap
       \/ /\ calls' = [calls EXCEPT ![c].pc = Gate(calls[c].auto)]
          /\ heap' = IF Gate(calls[c].auto) = "step"
                     THEN [heap EXCEPT ![calls[c].st].current_step = PROVISION_SERVER]
                     ELSE heap
    /\ UNCHANGED << current, ext, stamped, servers, now, tests, poll, mon, serviceVars >>

\* A variant in which the call ends the attempt when it returns at the gate.
ApprovalAlertCompleting(c) ==
    /\ calls[c].pc = "approval_alert"
    /\ alerts' = [alerts EXCEPT ![c] =
                     Append(@, AlertEff("critical", "Action Required: Approve Recovery", "-"))]
    /\ \/ \E m \in AlertMsgs :
             /\ calls' = [calls EXCEPT ![c].pc = "raised", ![c].exc = m]
             /\ UNCHANGED << heap, stamped, now >>
       \/ /\ calls' = [calls EXCEPT ![c].pc = "returned"]
          /\ heap' = [heap EXCEPT ![calls[c].st].completed_at = now]
          /\ stamped' = [stamped EXCEPT ![calls[c].st] = @ + 1]
          /\ now' = now + 1
    /\ UNCHANGED << current, ext, servers, tests, poll, mon, serviceVars >>

\* await send_alert("critical", "Action Required: Approve Recovery"); return state
ApprovalAlert(c) ==
    /\ calls[c].pc = "approval_alert"
    /\ alerts' = [alerts EXCEPT ![c] =
                     Append(@, AlertEff("critical", "Action Required: Approve Recovery", "-"))]
    /\ \/ \E m \in AlertMsgs :
             calls' = [calls EXCEPT ![c].pc = "raised", ![c].exc = m]
       \/ calls' = [calls EXCEPT ![c].pc = "returned"]
    /\ UNCHANGED << heap, current, ext, stamped, servers, now, tests, poll, mon, serviceVars >>

\* A variant of the handler that also clears current_step.
FailedClearingStep(s, msg, t) ==
    [ s EXCEPT !.failed_step = s.current_step, !.error = msg, !.completed_at = t,
               !.current_step = None ]

\* except Exception as e: failed_step, error and completed_at are recorded.
Failed(s, msg, t) ==
    [ s EXCEPT !.failed_step = s.current_step, !.error = msg, !.completed_at = t ]

\* A variant in which a finished step is recorded after the step that
\* follows it has been made current, so that step is never recorded.
CompletedLate(s, r, id, t) ==
    LET k == StepIndex(s.current_step)
        s1 == IF s.current_step = PROVISION_SERVER
              THEN [ s EXCEPT !.new_server_id = id, !.new_server_ip = IpOf(id) ]
              ELSE s
    IN  IF k < Len(RecoveryStep)
        THEN [ s1 EXCEPT !.current_step = RecoveryStep[k + 1],
                         !.completed_steps = Append(@, RecoveryStep[k + 1]) ]
        ELSE [ s1 EXCEPT !.completed_at = t ]

\* A variant that does not record the new server in the state.
CompletedUnrecorded(s, r, id, t) ==
    LET k == StepIndex(s.current_step)
        s2 == [ s EXCEPT !.completed_steps = Append(@, s.current_step) ]
    IN  IF k < Len(RecoveryStep)
        THEN [ s2 EXCEPT !.current_step = RecoveryStep[k + 1] ]
        ELSE [ s2 EXCEPT !.completed_at = t ]

\* A step body has returned: record it and move to the next step, or stamp
\* completed_at after the last one.
Completed(s, r, id, t) ==
    LET k == StepIndex(s.current_step)
        s1 == IF s.current_step = PROVISION_SERVER
              THEN [ s EXCEPT !.new_server_id = id, !.new_server_ip = IpOf(id) ]
              ELSE s
        s2 == [ s1 EXCEPT !.completed_steps = Append(@, s.current_step) ]
    IN  IF k < Len(RecoveryStep)
        THEN [ s2 EXCEPT !.current_step = RecoveryStep[k + 1] ]
        ELSE [ s2 EXCEPT !.completed_at = t ]

\* The body of the current step runs to its end or raises.
RunStep(c) ==
    /\ calls[c].pc = "step"
    /\ LET i == calls[c].st
           s == heap[i]
           k == StepIndex(s.current_step)
           id == Len(servers) + 1
       IN \E r \in StepRuns(s.current_step) :
            /\ alerts' = [alerts EXCEPT ![c] = @ \o AlertsOf(r.eff)]
            /\ ext' = [ext EXCEPT ![c] = @ \cup KindsOf(r.eff)]
            /\ servers' = IF r.created
                          THEN Append(servers, [ id |-> id, purpose |-> "gitlab-recovery",
                                                 alive |-> TRUE ])
                          ELSE servers
            /\ IF r.ok
               THEN /\ heap' = [heap EXCEPT ![i] = Completed(s, r, id, now)]
                    /\ IF k < Len(RecoveryStep)
                       THEN /\ calls' = calls
                            /\ UNCHANGED << stamped, now >>
                       ELSE /\ calls' = [calls EXCEPT ![c].pc = "success_alert"]
                            /\ stamped' = [stamped EXCEPT ![i] = @ + 1]
                            /\ now' = now + 1
               ELSE /\ heap' = [heap EXCEPT ![i] = Failed(s, r.exc, now)]
                    /\ calls' = [calls EXCEPT ![c].pc = "failure_alert",
                                              ![c].raisedStep = k]
                    /\ stamped' = [stamped EXCEPT ![i] = @ + 1]
                    /\ now' = now + 1
    /\ UNCHANGED << current, tests, poll, mon, serviceVars >>

\* await send_alert("info", "Disaster Recovery Complete"), inside the try.
SuccessAlert(c) ==
    /\ calls[c].pc = "success_alert"
    /\ alerts' = [alerts EXCEPT ![c] =
                     Append(@, AlertEff("info", "Disaster Recovery Complete", "-"))]
    /\ \/ /\ calls' = [calls EXCEPT ![c].pc = "returned"]
          /\ UNCHANGED << heap, stamped, now >>
       \/ \E m \in AlertMsgs :
             /\ heap' = [heap EXCEPT ![calls[c].st] = Failed(@, m, now)]
             /\ stamped' = [stamped EXCEPT ![calls[c].st] = @ + 1]
             /\ now' = now + 1
             /\ calls' = [calls EXCEPT ![c].pc = "failure_alert"]
    /\ UNCHANGED << current, ext, servers, tests, poll, mon, serviceVars >>

\* await send_alert("critical", "Disaster Recovery FAILED"), in the handler.
FailureAlert(c) ==
    /\ calls[c].pc = "failure_alert"
    /\ alerts' = [alerts EXCEPT ![c] =
                     Append(@, AlertEff("critical", "Disaster Recovery FAILED",
                                        heap[calls[c].st].current_step))]
    /\ \/ calls' = [calls EXCEPT ![c].pc = "returned"]
       \/ \E m \in AlertMsgs :
             calls' = [calls EXCEPT ![c].pc = "raised", ![c].exc = m]
    /\ UNCHANGED << heap, current, ext, stamped, servers, now, tests, poll, mon, serviceVars >>

(***************************************************************************)
(* RestoreTester.run_restore_test.                                         *)
(***************************************************************************)
NoArchivesTest == "No backup archives found"
NoBackupFile == "Could not find backup file for restore"

\* class RestoreTestResult, as constructed at the start of run_restore_test
RestoreTestResult(t) ==
    [ success |-> FALSE, start_time |-> t, end_time |-> NoneTime, server_id |-> NoneId,
      steps_completed |-> << >>, errors |-> << >>, verification_results |-> << >> ]

\* _provision_test_server
ProvisionTestRuns ==
    UNION { Runs(ProvisionOps(n, m), << >>, 2) : n \in 1..MaxPolls, m \in 1..MaxConnects }

\* RestoreTester._restore_backup
RestoreTestOps ==
    << Ssh("mkdir -p /tmp/gitlab-restore"),
       SshOr("borg list --last 1", NoArchivesTest),
       Ssh("borg extract"),
       Ssh("cp gitlab.rb || true"),
       Ssh("cp gitlab-secrets.json || true"),
       Ssh("find -exec cp"),
       SshOr("ls -1 | head -1 | xargs basename | sed", NoBackupFile),
       Ssh("gitlab-ctl stop puma"),
       Ssh("gitlab-ctl stop sidekiq"),
       Ssh("gitlab-backup restore"),
       Ssh("gitlab-ctl reconfigure"),
       Ssh("gitlab-ctl restart"),
       Sleep("60") >>

\* _verify_restore: every check catches its own exceptions and records
\* False, so the body returns the mapping whatever the probes do.
Quiet(op) == Op(op.e, {})

VerifyRestoreOps ==
    << Quiet(Ssh("gitlab-ctl status")), Http("/-/health"), Http("/-/readiness"),
       Http("/-/liveness"), Http("/"), Quiet(Ssh("gitlab-rake gitlab:check | tail -20")),
       Quiet(Ssh("gitlab-psql -c 'SELECT 1;'")) >>

Checks ==
    { "services_running", "health_check", "readiness_check", "liveness_check",
      "web_accessible", "gitlab_check", "database_accessible" }

\* The mappings explored: all checks pass, exactly one fails, all fail.
VerificationOutcomes ==
    { v \in [Checks -> BOOLEAN] :
        Cardinality({ c \in Checks : ~ v[c] }) \in {0, 1, Cardinality(Checks)} }

\* all(verification.values())
AllPassed(v) == \A c \in DOMAIN v : v[c]

TestSteps == << "provision", "install", "restore", "verify" >>

StepName(pc) ==
    CASE pc = "provision" -> "server_provisioned"
      [] pc = "install" -> "gitlab_installed"
      [] pc = "restore" -> "backup_restored"
      [] pc = "verify" -> "verification_completed"

TestRuns(pc) ==
    CASE pc = "provision" -> ProvisionTestRuns
      [] pc = "install" -> BodyRuns(<< Sleep("60") >> \o InstallOps, Close)
      [] pc = "restore" -> BodyRuns(RestoreTestOps, Close)
      [] pc = "verify" -> BodyRuns(VerifyRestoreOps, Close)

\* The finally clause: destroy the server if one was returned, stamp end_time.
DeleteOutcomes == {"deleted"} \cup CloudMsgs

Cleanup(res, srv, d, t) ==
    LET r1 == IF srv = NoneId THEN res
              ELSE IF d = "deleted"
                   THEN [ res EXCEPT !.steps_completed = Append(@, "server_destroyed") ]
                   ELSE [ res EXCEPT !.errors = Append(@, "Cleanup failed: " \o d) ]
    IN  [ r1 EXCEPT !.end_time = t ]

StartTest ==
    /\ Len(tests) < MaxTests
    /\ tests' = Append(tests, [ pc |-> "provision", server |-> NoneId,
                                result |-> RestoreTestResult(now),
                                alerts |-> << >>, ext |-> {}, exc |-> None,
                                made |-> NoneId, deletes |-> {}, stepExc |-> None ])
    /\ now' = now + 1
    /\ UNCHANGED << recoveryVars, servers, poll, mon, serviceVars >>

\* One workflow step runs to its end or raises; the except and finally
\* clauses run in the same turn (servers.delete is called directly).
TestStep(t) ==
    /\ tests[t].pc \in { TestSteps[i] : i \in DOMAIN TestSteps }
    /\ LET T == tests[t]
           id == Len(servers) + 1
       IN \E r \in TestRuns(T.pc) :
          \E v \in IF T.pc = "verify" /\ r.ok THEN VerificationOutcomes ELSE { << >> } :
          \E d \in IF (~ r.ok \/ T.pc = "verify")
                      /\ (IF T.pc = "provision" /\ r.ok THEN id ELSE T.server) # NoneId
                   THEN DeleteOutcomes ELSE { "" } :
            LET made == IF r.created
                        THEN Append(servers, [ id |-> id, purpose |-> "restore-test",
                                               alive |-> TRUE ])
                        ELSE servers
                srv == IF T.pc = "provision" /\ r.ok THEN id ELSE T.server
                res1 == IF T.pc = "provision"
                        THEN [ T.result EXCEPT !.server_id = id ]
                        ELSE IF T.pc = "verify"
                        THEN [ T.result EXCEPT !.verification_results = v ]
                        ELSE T.result
                res2 == [ res1 EXCEPT !.steps_completed = Append(@, StepName(T.pc)) ]
                res3 == IF T.pc = "verify"
                        THEN [ res2 EXCEPT !.success = AllPassed(v) ]
                        ELSE res2
                failed == [ T.result EXCEPT !.errors = Append(@, r.exc) ]
                leaving == ~ r.ok \/ T.pc = "verify"
                T1 == [ T EXCEPT !.alerts = @ \o AlertsOf(r.eff),
                                 !.ext = @ \cup KindsOf(r.eff)
                                           \cup (IF leaving /\ srv # NoneId
                                                 THEN {"cloud"} ELSE {}),
                                 !.server = srv,
                                 !.made = IF r.created THEN id ELSE @,
                                 !.deletes = IF leaving /\ srv # NoneId
                                             THEN @ \cup {srv} ELSE @,
                                 !.stepExc = IF r.ok THEN @ ELSE r.exc ]
            IN  IF leaving
                THEN /\ tests' = [tests EXCEPT ![t] =
                               [ T1 EXCEPT !.pc = "report",
                                           !.result = Cleanup(IF r.ok THEN res3 ELSE failed,
                                                              srv, d, now) ]]
                     /\ servers' = IF srv # NoneId /\ d = "deleted"
                                   THEN [made EXCEPT ![srv].alive = FALSE]
                                   ELSE made
                     /\ now' = now + 1
                ELSE /\ tests' = [tests EXCEPT ![t] =
                               [ T1 EXCEPT !.pc = TestSteps[
                                     1 + CHOOSE i \in DOMAIN TestSteps : TestSteps[i] = T.pc],
                                           !.result = res3 ]]
                     /\ servers' = made
                     /\ now' = now
    /\ UNCHANGED << recoveryVars, poll, mon, serviceVars >>

\* A variant of the report's severity that looks at the error list only.
ReportSeverityOfErrors(res) == IF res.errors = << >> THEN "info" ELSE "warning"

\* _send_report: severity = "info" if result.success else "warning"
ReportSeverity(res) == IF res.success THEN "info" ELSE "warning"

\* await self._send_report(result); return result
TestReport(t) ==
    /\ tests[t].pc = "report"
    /\ LET T == tests[t]
           sev == ReportSeverity(T.result)
           T1 == [ T EXCEPT !.alerts = Append(@, AlertEff(sev, "Backup Restore Test Report", "-")) ]
       IN \/ tests' = [tests EXCEPT ![t] = [ T1 EXCEPT !.pc = "returned" ]]
          \/ \E m \in AlertMsgs :
                tests' = [tests EXCEPT ![t] = [ T1 EXCEPT !.pc = "raised", !.exc = m ]]
    /\ UNCHANGED << recoveryVars, servers, now, poll, mon, serviceVars >>

Next ==
    \/ \E auto \in BOOLEAN : Initiate(auto)
    \/ \E c \in DOMAIN calls : InitAlert(c)
    \/ \E c \in DOMAIN calls : ApprovalAlert(c)
    \/ \E c \in DOMAIN calls : RunStep(c)
    \/ \E c \in DOMAIN calls : SuccessAlert(c)
    \/ \E c \in DOMAIN calls : FailureAlert(c)

Spec == Init /\ [][Next]_vars

NextTester ==
    \/ StartTest
    \/ \E t \in DOMAIN tests : TestStep(t)
    \/ \E t \in DOMAIN tests : TestReport(t)

SpecTester == Init /\ [][NextTester]_vars

(***************************************************************************)
(* The wait loops, _wait_for_action and _wait_for_ssh.  Time is counted in *)
(* seconds since the loop's start_time; a status fetch and a connect       *)
(* attempt take some of it, a sleep takes what it was asked for.           *)
(***************************************************************************)
PollInterval == 5
SettleDelay == 5
RetryInterval == 10
ConnectTimeout == 5

Timeouts == 0..MaxTimeout

FetchTimes == {0, 1}

ConnectTimes == {0, ConnectTimeout}

\* What a loop did: a status fetch, a connect attempt, a sleep it asked for.
Ev(ev, arg, detail) == [ev |-> ev, arg |-> arg, detail |-> detail]

Asleep(secs) == Ev("sleep", ToString(secs), None)

\* The action as actions.get_by_id returns it: its status and error.
ErrorDetails == {"provider error"}

\* The statuses the loop does not name: the provider's "running", and one
\* that the provider's documentation does not know.
OtherStatuses == { "running", "unknown" }

FetchResults ==
    { [status |-> "success", error |-> None] }
    \cup { [status |-> o, error |-> None] : o \in OtherStatuses }
    \cup { [status |-> "error", error |-> e] : e \in ErrorDetails }

\* What connect_ex gives: 0, an errno, or a socket.error raised.
ConnectResults == {"0", "111", "socket.error"}

ActionTimeout(timeout) == "Action timed out after " \o ToString(timeout) \o "s"

SshTimeout(timeout) == "SSH not available after " \o ToString(timeout) \o "s"

\* async def _wait_for_action(self, action, timeout): up to the first fetch
WaitForAction(timeout) ==
    /\ poll.pc = "idle"
    /\ poll' = [ fn |-> "action", pc |-> "fetch", timeout |-> timeout, elapsed |-> 0,
                 log |-> << >>, outcome |-> None ]
    /\ UNCHANGED << workflowVars, mon, serviceVars >>

\* A variant of the loop body that looks at the clock before the status.
ActionStatusClockFirst(p, r, d) ==
    LET q == [ p EXCEPT !.elapsed = @ + d,
                        !.log = Append(@, Ev("fetch", r.status, r.error)) ]
    IN  IF q.elapsed > q.timeout
        THEN [ q EXCEPT !.pc = "done", !.outcome = ActionTimeout(q.timeout) ]
        ELSE IF r.status = "success"
        THEN [ q EXCEPT !.pc = "done", !.outcome = "returned" ]
        ELSE IF r.status = "error"
        THEN [ q EXCEPT !.pc = "done", !.outcome = "Hetzner action failed: " \o r.error ]
        ELSE [ q EXCEPT !.pc = "sleep", !.log = Append(@, Asleep(PollInterval)) ]

\* A variant with a default arm: a status that is none of "success",
\* "error" and "running" ends the wait with an error.
ActionStatusStrict(p, r, d) ==
    LET q == [ p EXCEPT !.elapsed = @ + d,
                        !.log = Append(@, Ev("fetch", r.status, r.error)) ]
    IN  IF r.status = "success"
        THEN [ q EXCEPT !.pc = "done", !.outcome = "returned" ]
        ELSE IF r.status = "error"
        THEN [ q EXCEPT !.pc = "done", !.outcome = "Hetzner action failed: " \o r.error ]
        ELSE IF r.status # "running"
        THEN [ q EXCEPT !.pc = "done", !.outcome = "Unknown action status: " \o r.status ]
        ELSE IF q.elapsed > q.timeout
        THEN [ q EXCEPT !.pc = "done", !.outcome = ActionTimeout(q.timeout) ]
        ELSE [ q EXCEPT !.pc = "sleep", !.log = Append(@, Asleep(PollInterval)) ]

\* The loop body once the fetch has returned r after d seconds: return,
\* raise, or go to sleep for the polling interval.
ActionStatus(p, r, d) ==
    LET q == [ p EXCEPT !.elapsed = @ + d,
                        !.log = Append(@, Ev("fetch", r.status, r.error)) ]
    IN  IF r.status = "success"
        THEN [ q EXCEPT !.pc = "done", !.outcome = "returned" ]
        ELSE IF r.status = "error"
        THEN [ q EXCEPT !.pc = "done", !.outcome = "Hetzner action failed: " \o r.error ]
        ELSE IF q.elapsed > q.timeout
        THEN [ q EXCEPT !.pc = "done", !.outcome = ActionTimeout(q.timeout) ]
        ELSE [ q EXCEPT !.pc = "sleep", !.log = Append(@, Asleep(PollInterval)) ]

\* await loop.run_in_executor(None, get_action) returns or raises.
ActionFetched ==
    /\ poll.fn = "action" /\ poll.pc = "fetch"
    /\ \E d \in FetchTimes :
          \/ \E r \in FetchResults : poll' = ActionStatus(poll, r, d)
          \/ \E m \in CloudMsgs :
                poll' = [ poll EXCEPT !.elapsed = @ + d,
                                      !.log = Append(@, Ev("fetch", "raised", m)),
                                      !.pc = "done", !.outcome = m ]
    /\ UNCHANGED << workflowVars, mon, serviceVars >>

\* A variant in which the sleep returns without the clock having advanced.
ActionSleptClockStopped ==
    /\ poll.fn = "action" /\ poll.pc = "sleep"
    /\ poll' = [ poll EXCEPT !.pc = "fetch" ]
    /\ UNCHANGED << workflowVars, mon, serviceVars >>

\* await asyncio.sleep(5) returns; the loop fetches again.
ActionSlept ==
    /\ poll.fn = "action" /\ poll.pc = "sleep"
    /\ poll' = [ poll EXCEPT !.elapsed = @ + PollInterval, !.pc = "fetch" ]
    /\ UNCHANGED << workflowVars, mon, serviceVars >>

\* A variant of the attempt in which a socket error ends the wait.
AttemptFatal(p, c, d) ==
    LET q == [ p EXCEPT !.elapsed = @ + d, !.log = Append(@, Ev("connect", c, None)) ]
    IN  IF c = "0"
        THEN [ q EXCEPT !.pc = "settle", !.log = Append(@, Asleep(SettleDelay)) ]
        ELSE IF c = "socket.error"
        THEN [ q EXCEPT !.pc = "done", !.outcome = c ]
        ELSE IF q.elapsed > q.timeout
        THEN [ q EXCEPT !.pc = "done", !.outcome = SshTimeout(q.timeout) ]
        ELSE [ q EXCEPT !.pc = "retry", !.log = Append(@, Asleep(RetryInterval)) ]

\* One pass of the loop of _wait_for_ssh: the connect attempt gave c after
\* d seconds; settle, raise, or go to sleep for the retry interval.
Attempt(p, c, d) ==
    LET q == [ p EXCEPT !.elapsed = @ + d, !.log = Append(@, Ev("connect", c, None)) ]
    IN  IF c = "0"
        THEN [ q EXCEPT !.pc = "settle", !.log = Append(@, Asleep(SettleDelay)) ]
        ELSE IF q.elapsed > q.timeout
        THEN [ q EXCEPT !.pc = "done", !.outcome = SshTimeout(q.timeout) ]
        ELSE [ q EXCEPT !.pc = "retry", !.log = Append(@, Asleep(RetryInterval)) ]

\* async def _wait_for_ssh(self, server_ip, timeout): the first attempt is
\* made in the turn of the call (connect_ex is not awaited).
WaitForSsh(timeout) ==
    /\ poll.pc = "idle"
    /\ \E c \in ConnectResults, d \in ConnectTimes :
          poll' = Attempt([ fn |-> "ssh", pc |-> "connect", timeout |-> timeout,
                            elapsed |-> 0, log |-> << >>, outcome |-> None ], c, d)
    /\ UNCHANGED << workflowVars, mon, serviceVars >>

\* await asyncio.sleep(10) returns; the next attempt.
SshRetried ==
    /\ poll.fn = "ssh" /\ poll.pc = "retry"
    /\ \E c \in ConnectResults, d \in ConnectTimes :
          poll' = Attempt([ poll EXCEPT !.elapsed = @ + RetryInterval ], c, d)
    /\ UNCHANGED << workflowVars, mon, serviceVars >>

\* await asyncio.sleep(5) returns; return.
SshSettled ==
    /\ poll.fn = "ssh" /\ poll.pc = "settle"
    /\ poll' = [ poll EXCEPT !.elapsed = @ + SettleDelay, !.pc = "done",
                             !.outcome = "returned" ]
    /\ UNCHANGED << workflowVars, mon, serviceVars >>

NextPoll ==
    \/ \E timeout \in Timeouts : WaitForAction(timeout)
    \/ ActionFetched
    \/ ActionSlept
    \/ \E timeout \in Timeouts : WaitForSsh(timeout)
    \/ SshRetried
    \/ SshSettled

\* The event loop resumes a coroutine whose awaited call has finished.
SpecPoll == Init /\ [][NextPoll]_vars /\ WF_vars(NextPoll)

(***************************************************************************)
(* BackupMonitor.check (src/monitors/backup.py).  A dict is a function     *)
(* from its keys; the output of a remote command is the list of its        *)
(* whitespace-separated fields, as output.strip().split() gives them.      *)
(* Ages are in hundredths of an hour where the code holds a value rounded  *)
(* to two decimals, and in thousandths where the file system holds them.   *)
(***************************************************************************)
OK == "ok"
WARNING == "warning"
CRITICAL == "critical"
UNKNOWN == "unknown"

Status == {OK, WARNING, CRITICAL, UNKNOWN}

\* local_backup.get("age_hours", 999)
NoAgeSentinel == 999

\* settings.max_backup_age_hours, an unconstrained int of the configuration
Thresholds == {4, NoAgeSentinel}

\* The true age of the newest local backup file, in thousandths of an hour.
LocalAges == {1000, 4004, 6000}

Has(d, k) == k \in DOMAIN d

Get(d, k, default) == IF k \in DOMAIN d THEN d[k] ELSE default

Put(d, k, v) == [ x \in DOMAIN d \cup {k} |-> IF x = k THEN v ELSE d[x] ]

\* round(age_hours, 2), on thousandths
Round2(a) == (a + 5) \div 10

\* f"{x:.1f}", on hundredths
Fmt1(h) == LET t == (h + 5) \div 10 IN ToString(t \div 10) \o "." \o ToString(t % 10)

RECURSIVE Join(_)
\* "; ".join(issues)
Join(issues) ==
    IF issues = << >> THEN ""
    ELSE IF Len(issues) = 1 THEN issues[1]
    ELSE issues[1] \o "; " \o Join(Tail(issues))

\* What run_command gives: the fields of its output, or an exception.
Out(parts) == [ raised |-> FALSE, parts |-> parts, msg |-> "" ]

Raised(m) == [ raised |-> TRUE, parts |-> << >>, msg |-> m ]

LsLine ==
    << "-rw-------", "1", "root", "root", "5368709120", "Jan", "1", "12:00",
       "/var/opt/gitlab/backups/1_gitlab_backup.tar" >>

LsOutcomes ==
    { Raised(m) : m \in SshMsgs } \cup { Out(<< >>), Out(<< "total", "0" >>), Out(LsLine) }

\* stat -c %Y: nothing (int("") raises ValueError) or the mtime, given here
\* by the age it stands for.
BadMtime == "invalid literal for int() with base 10: ''"

StatOutcomes ==
    { [ raised |-> TRUE, msg |-> m, age |-> 0 ] : m \in SshMsgs }
    \cup { [ raised |-> FALSE, msg |-> BadMtime, age |-> -1 ] }
    \cup { [ raised |-> FALSE, msg |-> "", age |-> a ] : a \in LocalAges }

\* borg list --last 1: the archive and its time, nothing, an error text, or
\* an exception.  stale tells what the printed time means (an archive older
\* than twice the threshold); the output itself carries no age.
ErrorWords == { "Error:", "Warning:" }

BorgOutcomes ==
    { [ raised |-> TRUE, parts |-> << >>, msg |-> m, stale |-> FALSE ] : m \in SshMsgs }
    \cup { [ raised |-> FALSE, parts |-> << "Error:", "repository", "locked" >>,
             msg |-> "", stale |-> FALSE ],
           [ raised |-> FALSE, parts |-> << >>, msg |-> "", stale |-> FALSE ] }
    \cup { [ raised |-> FALSE, parts |-> << "gitlab-1", "2024-01-01", "12:00:00" >>,
             msg |-> "", stale |-> b ] : b \in BOOLEAN }

\* tail | grep -i 'error\|fail' | tail -5: the matching lines, one field each
LogOutcomes ==
    { Raised(m) : m \in SshMsgs } \cup { Out(<< >>), Out(<< "ERROR:backup-failed" >>) }

\* if "error" in output.lower() or "warning" in output.lower()
MentionsError(parts) == \E i \in DOMAIN parts : parts[i] \in ErrorWords

RECURSIVE Text(_)
\* output.strip(), from the fields
Text(parts) ==
    IF parts = << >> THEN ""
    ELSE IF Len(parts) = 1 THEN parts[1]
    ELSE parts[1] \o " " \o Text(Tail(parts))

\* The frame of check() at its first await, and the monitor's own state.
CheckFrame(threshold, repo) ==
    [ pc |-> "ls", threshold |-> threshold, borg_repo |-> repo,
      issues |-> << >>, details |-> << >>, status |-> None, message |-> None,
      alerts |-> << >>, cmds |-> << >>, exc |-> None,
      last_result |-> None, consecutive_failures |-> 0,
      noFile |-> FALSE, trueAge |-> -1, repoErrored |-> FALSE, repoStale |-> FALSE,
      logErrors |-> FALSE, excepted |-> FALSE ]

\* async def check(self): up to the first remote command
Check(threshold, repo) ==
    /\ mon.pc = "idle"
    /\ mon' = CheckFrame(threshold, repo)
    /\ UNCHANGED << workflowVars, poll, serviceVars >>

\* result = CheckResult(...); self.record_result(result); return result
Finish(m) ==
    [ m EXCEPT !.pc = "returned",
               !.last_result = [ status |-> m.status, message |-> m.message,
                                 details |-> m.details ],
               !.consecutive_failures = IF m.status = CRITICAL THEN @ + 1 ELSE 0 ]

TheAlert(m) == [ sev |-> "critical", title |-> "GitLab Backup Alert",
                 message |-> m.message, details |-> m.details ]

\* A variant of the verdict that sends one alert for each issue.
VerdictAlertingEach(m) ==
    IF m.issues # << >>
    THEN LET m1 == [ m EXCEPT !.status = CRITICAL, !.message = Join(m.issues) ]
         IN  [ m1 EXCEPT !.pc = "alert",
                         !.alerts = [ i \in DOMAIN m.issues |-> TheAlert(m1) ] ]
    ELSE IF Has(m.details["local"], "age_hours")
    THEN Finish([ m EXCEPT !.status = OK,
                           !.message = "Backups healthy (local: "
                               \o Fmt1(m.details["local"]["age_hours"]) \o "h old)" ])
    ELSE [ m EXCEPT !.status = OK, !.pc = "raised",
                    !.exc = "Unknown format code 'f' for object of type 'str'" ]

\* "Determine status": CRITICAL and the alert when there are issues; else OK,
\* whose message formats the local age with :.1f (the default '?' is a str).
Verdict(m) ==
    IF m.issues # << >>
    THEN LET m1 == [ m EXCEPT !.status = CRITICAL, !.message = Join(m.issues) ]
         IN  [ m1 EXCEPT !.pc = "alert", !.alerts = Append(@, TheAlert(m1)) ]
    ELSE IF Has(m.details["local"], "age_hours")
    THEN Finish([ m EXCEPT !.status = OK,
                           !.message = "Backups healthy (local: "
                               \o Fmt1(m.details["local"]["age_hours"]) \o "h old)" ])
    ELSE [ m EXCEPT !.status = OK, !.pc = "raised",
                    !.exc = "Unknown format code 'f' for object of type 'str'" ]

\* except Exception as e: the issue and details["error"], then the verdict
Except(m, msg) ==
    Verdict([ m EXCEPT !.issues = Append(@, "Backup check error: " \o msg),
                       !.details = Put(@, "error", msg),
                       !.excepted = TRUE ])

\* details["local"] = local_backup, the age comparison, and on to the
\* repository query (if a repository is configured) or the log scan.
AfterLocal(m, local) ==
    LET m1 == [ m EXCEPT !.details = Put(@, "local", local) ]
    IN  IF Get(local, "age_hours", NoAgeSentinel * 100) > m.threshold * 100
        THEN IF Has(local, "age_hours")
             THEN [ m1 EXCEPT !.issues = Append(@, "Local backup is "
                                  \o Fmt1(local["age_hours"]) \o " hours old (threshold: "
                                  \o ToString(m.threshold) \o "h)"),
                              !.pc = IF m.borg_repo THEN "borg" ELSE "log" ]
             ELSE Except(m1, "'age_hours'")
        ELSE [ m1 EXCEPT !.pc = IF m.borg_repo THEN "borg" ELSE "log" ]

\* _check_local_backup, first command: ls -lt ... | head -1
LocalListed ==
    /\ mon.pc = "ls"
    /\ \E o \in LsOutcomes :
          LET m == [ mon EXCEPT !.cmds = Append(@, "ls") ]
          IN  mon' = IF o.raised THEN Except(m, o.msg)
                     ELSE IF o.parts = << >>
                     THEN AfterLocal([ m EXCEPT !.noFile = TRUE ],
                                     [ exists |-> FALSE, error |-> "No backup files found" ])
                     ELSE IF Len(o.parts) < 9
                     THEN AfterLocal(m, [ exists |-> FALSE,
                                          error |-> "Cannot parse: " \o Text(o.parts) ])
                     ELSE [ m EXCEPT !.pc = "stat" ]
    /\ UNCHANGED << workflowVars, poll, serviceVars >>

\* _check_local_backup, second command: stat -c %Y
LocalStated ==
    /\ mon.pc = "stat"
    /\ \E o \in StatOutcomes :
          LET m == [ mon EXCEPT !.cmds = Append(@, "stat") ]
          IN  mon' = IF o.raised THEN Except(m, o.msg)
                     ELSE IF o.age < 0 THEN Except(m, o.msg)
                     ELSE AfterLocal([ m EXCEPT !.trueAge = o.age ],
                                     [ exists |-> TRUE, filename |-> LsLine[9],
                                       size_gb |-> "5.0", timestamp |-> "mtime",
                                       age_hours |-> Round2(o.age) ])
    /\ UNCHANGED << workflowVars, poll, serviceVars >>

\* _check_borg_backup: what it returns for an outcome of borg list
BorgStatus(o) ==
    IF o.raised THEN [ error |-> o.msg ]
    ELSE IF MentionsError(o.parts) THEN [ error |-> Text(o.parts) ]
    ELSE IF Len(o.parts) >= 2
    THEN [ archive |-> o.parts[1], timestamp |-> Text(Tail(o.parts)), accessible |-> TRUE ]
    ELSE [ accessible |-> TRUE, raw |-> Text(o.parts) ]

\* The repository part of check(): details["borg"] and its issues.
AfterBorg(m, b) ==
    LET m1 == [ m EXCEPT !.details = Put(@, "borg", b), !.pc = "log" ]
    IN  IF Get(b, "error", "") # ""
        THEN [ m1 EXCEPT !.issues = Append(@, "Borg check failed: " \o b["error"]) ]
        ELSE IF Has(b, "age_hours") /\ b["age_hours"] > m.threshold * 2 * 100
        THEN [ m1 EXCEPT !.issues = Append(@, "Borg backup is "
                                  \o Fmt1(b["age_hours"]) \o " hours old") ]
        ELSE m1

BorgListed ==
    /\ mon.pc = "borg"
    /\ \E o \in BorgOutcomes :
          mon' = AfterBorg([ mon EXCEPT !.cmds = Append(@, "borg list"),
                                        !.repoErrored = o.raised \/ MentionsError(o.parts),
                                        !.repoStale = o.stale ],
                           BorgStatus(o))
    /\ UNCHANGED << workflowVars, poll, serviceVars >>

\* _check_backup_log and the end of the try block
LogTailed ==
    /\ mon.pc = "log"
    /\ \E o \in LogOutcomes :
          LET m == [ mon EXCEPT !.cmds = Append(@, "tail") ]
              errors == o.parts
              log == [ recent_errors |-> IF errors # << >> THEN errors ELSE << >>,
                       error_count |-> Len(errors) ]
              m1 == [ m EXCEPT !.details = Put(@, "log", log),
                               !.logErrors = errors # << >> ]
          IN  mon' = IF o.raised THEN Except(m, o.msg)
                     ELSE IF log.recent_errors # << >>
                     THEN Verdict([ m1 EXCEPT !.issues =
                                       Append(@, "Backup log errors: " \o Text(errors)) ])
                     ELSE Verdict(m1)
    /\ UNCHANGED << workflowVars, poll, serviceVars >>

\* await self.alerts.send_alert(...) returns or raises
CheckAlerted ==
    /\ mon.pc = "alert"
    /\ \/ mon' = Finish(mon)
       \/ \E e \in AlertMsgs : mon' = [ mon EXCEPT !.pc = "raised", !.exc = e ]
    /\ UNCHANGED << workflowVars, poll, serviceVars >>

(***************************************************************************)
(* BaseMonitor (src/monitors/base.py): the last result, the counter of     *)
(* consecutive failures and the Prometheus counter of checks by status.    *)
(* recorded is the sequence of results handed to record_result so far.     *)
(***************************************************************************)
ResultMessages == { "first", "second" }

\* class CheckResult; the timestamp is left out
CheckResult(status, message) == [ status |-> status, message |-> message ]

\* A variant that counts every CRITICAL result since the last OK result.
RecordResultSinceOk(b, result) ==
    [ b EXCEPT !.last_result = result,
               !.check_counter[result.status] = @ + 1,
               !.consecutive_failures =
                   IF result.status = CRITICAL THEN @ + 1
                   ELSE IF result.status = OK THEN 0 ELSE @,
               !.recorded = Append(@, result) ]

\* def record_result(self, result)
RecordResult(b, result) ==
    [ b EXCEPT !.last_result = result,
               !.check_counter[result.status] = @ + 1,
               !.consecutive_failures = IF result.status = CRITICAL THEN @ + 1 ELSE 0,
               !.recorded = Append(@, result) ]

\* A check of some monitor ends by recording its result.
ResultRecorded ==
    /\ Len(base.recorded) < MaxResults
    /\ \E status \in Status : \E message \in ResultMessages :
          base' = RecordResult(base, CheckResult(status, message))
    /\ UNCHANGED << workflowVars, poll, mon, integ, sshc, am, att, body, twin >>

NextMonitor == ResultRecorded

SpecMonitor == Init /\ [][NextMonitor]_vars

(***************************************************************************)
(* BackupMonitor.verify_integrity (src/monitors/backup.py).  The outputs   *)
(* are short, so the slices output[-500:], [-1000:] and [-2000:] are the   *)
(* whole output.                                                           *)
(***************************************************************************)
\* echo BORG_CHECK_OK, printed when borg check exits with status 0
CheckOkMarker == "BORG_CHECK_OK"

\* borg check --repository-only ... 2>&1 && echo BORG_CHECK_OK: the marker
\* alone, borg's complaints (with or without the marker after them),
\* nothing, or an exception.
IntegrityOutcomes ==
    { Raised(m) : m \in SshMsgs }
    \cup { Out(<< CheckOkMarker >>),
           Out(<< "Warning:", "stale", "lock", CheckOkMarker >>),
           Out(<< "Data", "integrity", "error:", "segment", "5" >>),
           Out(<< >>) }

\* "BORG_CHECK_OK" in output
Passed(parts) == \E i \in DOMAIN parts : parts[i] = CheckOkMarker

FailedAlert(parts) ==
    [ sev |-> "critical", title |-> "Borg Repository Integrity Check Failed",
      message |-> "borg check reported issues: " \o Text(parts) ]

ErrorAlert(msg) ==
    [ sev |-> "critical", title |-> "Borg Integrity Check Error",
      message |-> "Failed to run borg check: " \o msg ]

\* The frame of verify_integrity() with a repository configured, at its
\* remote command.  marker and cmdRaised record what the command did.
VerifyFrame ==
    [ pc |-> "run", borg_repo |-> TRUE, gauge |-> << >>, cmds |-> << >>,
      alerts |-> << >>, parts |-> << >>, err |-> None, result |-> None, exc |-> None,
      marker |-> FALSE, cmdRaised |-> FALSE ]

\* A variant of verify_integrity without the early return for an
\* unconfigured repository.
VerifyIntegrityUnguarded(repo) ==
    /\ integ.pc = "idle"
    /\ integ' = [ VerifyFrame EXCEPT !.borg_repo = repo ]
    /\ UNCHANGED << workflowVars, poll, mon, sshc, am, att, body, twin, base >>

\* async def verify_integrity(self): the unconfigured return, or up to the
\* remote command
VerifyIntegrity(repo) ==
    /\ integ.pc = "idle"
    /\ integ' = IF ~ repo
                THEN [ VerifyFrame EXCEPT !.pc = "returned", !.borg_repo = FALSE,
                           !.gauge = << -1 >>,
                           !.result = [ skipped |-> TRUE,
                                        reason |-> "No Borg repo configured" ] ]
                ELSE VerifyFrame
    /\ UNCHANGED << workflowVars, poll, mon, sshc, am, att, body, twin, base >>

\* except Exception as e: the gauge, and up to the handler's send_alert
Handler(v, msg) ==
    [ v EXCEPT !.pc = "error_alert", !.gauge = Append(@, 0), !.err = msg,
               !.alerts = Append(@, ErrorAlert(msg)) ]

\* output = await self.ssh.run_command(cmd, timeout=1800) returns or raises
IntegrityRan ==
    /\ integ.pc = "run"
    /\ \E o \in IntegrityOutcomes :
          LET v == [ integ EXCEPT !.cmds = Append(@, "borg check"),
                                  !.cmdRaised = o.raised,
                                  !.marker = ~ o.raised /\ Passed(o.parts),
                                  !.parts = o.parts ]
              passed == Passed(o.parts)
              v1 == [ v EXCEPT !.gauge = Append(@, IF passed THEN 1 ELSE 0) ]
          IN  integ' = IF o.raised THEN Handler(v, o.msg)
                       ELSE IF ~ passed
                       THEN [ v1 EXCEPT !.pc = "failed_alert",
                                        !.alerts = Append(@, FailedAlert(o.parts)) ]
                       ELSE [ v1 EXCEPT !.pc = "returned",
                                        !.result = [ passed |-> passed,
                                                     output |-> Text(o.parts) ] ]
    /\ UNCHANGED << workflowVars, poll, mon, sshc, am, att, body, twin, base >>

\* The send_alert of `if not passed` (inside the try) returns or raises
IntegrityFailedAlerted ==
    /\ integ.pc = "failed_alert"
    /\ \/ integ' = [ integ EXCEPT !.pc = "returned",
                                  !.result = [ passed |-> FALSE,
                                               output |-> Text(integ.parts) ] ]
       \/ \E e \in AlertMsgs : integ' = Handler(integ, e)
    /\ UNCHANGED << workflowVars, poll, mon, sshc, am, att, body, twin, base >>

\* The send_alert of the except block returns or raises
IntegrityErrorAlerted ==
    /\ integ.pc = "error_alert"
    /\ \/ integ' = [ integ EXCEPT !.pc = "returned",
                                  !.result = [ passed |-> FALSE, error |-> integ.err ] ]
       \/ \E e \in AlertMsgs : integ' = [ integ EXCEPT !.pc = "raised", !.exc = e ]
    /\ UNCHANGED << workflowVars, poll, mon, sshc, am, att, body, twin, base >>

NextBackup ==
    \/ \E threshold \in Thresholds, repo \in BOOLEAN : Check(threshold, repo)
    \/ LocalListed
    \/ LocalStated
    \/ BorgListed
    \/ LogTailed
    \/ CheckAlerted
    \/ \E repo \in BOOLEAN : VerifyIntegrity(repo)
    \/ IntegrityRan
    \/ IntegrityFailedAlerted
    \/ IntegrityErrorAlerted

SpecBackup == Init /\ [][NextBackup]_vars

(***************************************************************************)
(* SSHClient (src/utils/ssh.py).  The paramiko client held in _client is   *)
(* "active" (its transport is up), "inactive" (the transport has gone) or  *)
(* "unconnected" (created, never connected).  The streams of a command are *)
(* byte strings; the bytes used are ASCII letters and 255, which no UTF-8  *)
(* text contains.                                                          *)
(***************************************************************************)
ExitStatuses == {0, 1, -1}

Streams == { << >>, << 111, 107 >>, << 102, 97, 105, 108 >>, << 111, 255 >> }

Chr(b) ==
    CASE b = 97 -> "a" [] b = 102 -> "f" [] b = 105 -> "i" [] b = 107 -> "k"
      [] b = 108 -> "l" [] b = 111 -> "o"

Decodable(bytes) == \A i \in DOMAIN bytes : bytes[i] < 128

RECURSIVE Decode(_)
\* bytes.decode("utf-8"), for bytes that are decodable
Decode(bytes) ==
    IF bytes = << >> THEN "" ELSE Chr(Head(bytes)) \o Decode(Tail(bytes))

KeyNotFound == "SSH key not found"
ConnectFailed == "Unable to connect to port 22"
ExecFailed == "SSH session not active"
DecodeFailed == "'utf-8' codec can't decode byte 0xff"

\* _is_connected
IsConnected(client) == client = "active"

\* What _get_client leaves in self._client and whether it raises: the
\* connection held is reused while it is active; otherwise a new paramiko
\* client is stored before the key is looked up and the connection is made.
GetClient(client, key, conn) ==
    IF client # None /\ IsConnected(client) THEN [ client |-> client, exc |-> None ]
    ELSE IF ~ key THEN [ client |-> "unconnected", exc |-> KeyNotFound ]
    ELSE IF ~ conn THEN [ client |-> "unconnected", exc |-> ConnectFailed ]
    ELSE [ client |-> "active", exc |-> None ]

\* A variant of _run_command_sync that treats a non-zero exit status as a
\* failure of the command.
RunCommandSyncChecked(c, key, conn, exec, exit, out, err) ==
    LET g == GetClient(c.client, key, conn)
        c1 == [ c EXCEPT !.client = g.client, !.commands = @ + 1, !.exit = exit,
                         !.stdout = out, !.stderr = err, !.ran = FALSE,
                         !.raised = TRUE, !.value = "", !.warned = FALSE ]
    IN  IF g.exc # None THEN [ c1 EXCEPT !.value = g.exc ]
        ELSE IF ~ exec THEN [ c1 EXCEPT !.value = ExecFailed ]
        ELSE IF ~ Decodable(out) \/ ~ Decodable(err)
        THEN [ c1 EXCEPT !.ran = TRUE, !.value = DecodeFailed ]
        ELSE IF exit # 0
        THEN [ c1 EXCEPT !.ran = TRUE, !.warned = TRUE, !.value = Decode(err) ]
        ELSE [ c1 EXCEPT !.ran = TRUE, !.raised = FALSE, !.value = Decode(out) ]

\* _run_command_sync: the connection, exec_command, the exit status, both
\* streams decoded, the warning for a non-zero exit status, the output.
RunCommandSync(c, key, conn, exec, exit, out, err) ==
    LET g == GetClient(c.client, key, conn)
        c1 == [ c EXCEPT !.client = g.client, !.commands = @ + 1, !.exit = exit,
                         !.stdout = out, !.stderr = err, !.ran = FALSE,
                         !.raised = TRUE, !.value = "", !.warned = FALSE ]
    IN  IF g.exc # None THEN [ c1 EXCEPT !.value = g.exc ]
        ELSE IF ~ exec THEN [ c1 EXCEPT !.value = ExecFailed ]
        ELSE IF ~ Decodable(out) \/ ~ Decodable(err)
        THEN [ c1 EXCEPT !.ran = TRUE, !.value = DecodeFailed ]
        ELSE [ c1 EXCEPT !.ran = TRUE, !.raised = FALSE, !.value = Decode(out),
                         !.warned = exit # 0 ]

\* run_command: _run_command_sync on the executor, its result or exception
\* handed to the caller.
RunCommand ==
    /\ sshc.commands < MaxCommands
    /\ \E key \in BOOLEAN, conn \in BOOLEAN, exec \in BOOLEAN,
          exit \in ExitStatuses, out \in Streams, err \in Streams :
          sshc' = RunCommandSync(sshc, key, conn, exec, exit, out, err)
    /\ UNCHANGED << workflowVars, poll, mon, integ, am, att, body, twin, base >>

\* The connection is lost: the transport is no longer active.
TransportLost ==
    /\ sshc.client = "active"
    /\ sshc' = [ sshc EXCEPT !.client = "inactive" ]
    /\ UNCHANGED << workflowVars, poll, mon, integ, am, att, body, twin, base >>

\* close(): the paramiko client, if there is one, is closed and dropped.
CloseClient ==
    /\ sshc.closed < MaxCommands
    /\ sshc' = IF sshc.client # None
               THEN [ sshc EXCEPT !.client = None, !.closed = @ + 1 ]
               ELSE sshc
    /\ UNCHANGED << workflowVars, poll, mon, integ, am, att, body, twin, base >>

NextSsh ==
    \/ RunCommand
    \/ TransportLost
    \/ CloseClient

SpecSsh == Init /\ [][NextSsh]_vars

(***************************************************************************)
(* AlertManager (src/alerting/manager.py).  Time is in minutes.  The       *)
(* 12 hex digits of the MD5 digest that make an alert_id are represented   *)
(* by the text that is hashed.                                             *)
(***************************************************************************)
\* settings.cooldown_minutes
CooldownMinutes == 60

\* How far the clock moves between two operations on the manager.
Advances == { CooldownMinutes, CooldownMinutes + 1 }

Severities == { "critical", "warning" }

Titles == { "Disk" }

Messages == { "First occurrence", "Second occurrence" }

\* email_enabled, webhook_enabled, webhook_url
AlertingSettings ==
    [ email_enabled : BOOLEAN, webhook_enabled : BOOLEAN,
      webhook_url : { "", "https://hooks.example" } ]

\* A variant of the alert_id that is made from the title alone.
AlertIdOfTitle(severity, title) == title

\* Alert.__post_init__: the alert_id, from f"{severity}:{title}"
AlertId(severity, title) == severity \o ":" \o title

\* AlertManager(settings)
NewAlertManager(settings) ==
    /\ ~ am.made
    /\ am' = [ made |-> TRUE, settings |-> settings, sent_alerts |-> << >>,
               alert_history |-> << >>, now |-> 0, sends |-> << >>, clears |-> << >> ]
    /\ UNCHANGED << workflowVars, poll, mon, integ, sshc, att, body, twin, base >>

\* The operations made on the manager, and the clock readings, so far.
Events(a) == Len(a.sends) + Len(a.clears) + a.now \div CooldownMinutes

\* Time passes.
ClockAdvanced ==
    /\ am.made
    /\ Events(am) < MaxEvents
    /\ \E m \in Advances : am' = [ am EXCEPT !.now = @ + m ]
    /\ UNCHANGED << workflowVars, poll, mon, integ, sshc, att, body, twin, base >>

\* _should_send
ShouldSend(a, id) ==
    IF ~ Has(a.sent_alerts, id) THEN TRUE
    ELSE a.now - a.sent_alerts[id] > CooldownMinutes

\* The frame of a send_alert call: its arguments, when it was made, whether
\* it passed the cooldown check, and what each channel did.
SendFrame(severity, title, message, at, passed) ==
    [ severity |-> severity, title |-> title, message |-> message, at |-> at,
      passed |-> passed, pc |-> IF passed THEN "deliver" ELSE "returned",
      email |-> "-", webhook |-> "-", result |-> FALSE ]

\* A variant that records nothing before the delivery: the cooldown is not
\* started by the call.
SendAlertCalledUnrecorded(severity, title, message) ==
    /\ am.made
    /\ Events(am) < MaxEvents
    /\ LET id == AlertId(severity, title)
           passed == ShouldSend(am, id)
           f == SendFrame(severity, title, message, am.now, passed)
       IN  am' = [ am EXCEPT !.sends = Append(@, f) ]
    /\ UNCHANGED << workflowVars, poll, mon, integ, sshc, att, body, twin, base >>

\* send_alert up to its first await: the Alert, the cooldown check and the
\* suppressed return, or the record in _sent_alerts and _alert_history.
SendAlertCalled(severity, title, message) ==
    /\ am.made
    /\ Events(am) < MaxEvents
    /\ LET id == AlertId(severity, title)
           passed == ShouldSend(am, id)
           f == SendFrame(severity, title, message, am.now, passed)
       IN  am' = IF ~ passed
                 THEN [ am EXCEPT !.sends = Append(@, f) ]
                 ELSE [ am EXCEPT !.sends = Append(@, f),
                                  !.sent_alerts = Put(@, id, am.now),
                                  !.alert_history =
                                      Append(@, [ severity |-> severity, title |-> title,
                                                  message |-> message, alert_id |-> id ]) ]
    /\ UNCHANGED << workflowVars, poll, mon, integ, sshc, att, body, twin, base >>

\* What _send_email does: the mail is sent, nothing is sent because there
\* are no recipients (a normal return), or it raises.
EmailOutcomes == { "sent", "no recipients", "failed" }

WebhookOutcomes == { "sent", "failed" }

\* The channels of send_alert and its return value: each enabled channel
\* is tried, an exception of a channel is logged, and success is True when
\* one of them returned.
AlertDelivered(k) ==
    /\ am.made
    /\ k \in DOMAIN am.sends
    /\ am.sends[k].pc = "deliver"
    /\ \E e \in EmailOutcomes, w \in WebhookOutcomes :
          LET email == IF am.settings.email_enabled THEN e ELSE "-"
              webhook == IF am.settings.webhook_enabled /\ am.settings.webhook_url # ""
                         THEN w ELSE "-"
          IN  am' = [ am EXCEPT !.sends[k] =
                         [ @ EXCEPT !.pc = "returned", !.email = email,
                                    !.webhook = webhook,
                                    !.result = email \in { "sent", "no recipients" }
                                               \/ webhook = "sent" ] ]
    /\ UNCHANGED << workflowVars, poll, mon, integ, sshc, att, body, twin, base >>

\* clear_cooldown(alert_id): one entry is dropped, or all when the
\* argument is None or empty.  after records how many send_alert calls had
\* been made.
ClearCooldown(alert_id) ==
    /\ am.made
    /\ Events(am) < MaxEvents
    /\ am' = [ am EXCEPT
                 !.sent_alerts = IF alert_id # ""
                                 THEN [ x \in DOMAIN @ \ { alert_id } |-> @[x] ]
                                 ELSE << >>,
                 !.clears = Append(@, [ alert_id |-> alert_id, after |-> Len(am.sends) ]) ]
    /\ UNCHANGED << workflowVars, poll, mon, integ, sshc, att, body, twin, base >>

NextAlerts ==
    \/ \E settings \in AlertingSettings : NewAlertManager(settings)
    \/ ClockAdvanced
    \/ \E severity \in Severities, title \in Titles, message \in Messages :
          SendAlertCalled(severity, title, message)
    \/ \E k \in 1..MaxEvents : AlertDelivered(k)
    \/ \E alert_id \in { "" } \cup { AlertId(s, t) : s \in Severities, t \in Titles } :
          ClearCooldown(alert_id)

SpecAlerts == Init /\ [][NextAlerts]_vars

(***************************************************************************)
(* RecoveryManager._attach_volumes, await by await.  A volume is its id    *)
(* and whether it is attached to a server (volume.server); a wait is one   *)
(* call of _wait_for_action, which returns or raises.                      *)
(***************************************************************************)
\* What volumes.get_all(label_selector="purpose=gitlab-data") can list.
TaggedVolumes ==
    UNION { { [ i \in 1..n |-> [ id |-> i, server |-> a[i] ] ] : a \in [1..n -> BOOLEAN] }
            : n \in 0..MaxTagged }

\* The exceptions of a call of _wait_for_action
WaitErrors == CloudMsgs \cup { ActionFailed, ActionTimedOut }

Did(op, volume, ok) == [ op |-> op, volume |-> volume, ok |-> ok ]

\* async def _attach_volumes(self, server): up to the listing of the volumes
AttachVolumes ==
    /\ att.pc = "idle"
    /\ att' = [ pc |-> "get_all", volumes |-> << >>, i |-> 0, log |-> << >>,
                exc |-> None ]
    /\ UNCHANGED << workflowVars, poll, mon, integ, sshc, am, body, twin, base >>

\* An awaited call raises: the exception leaves _attach_volumes.
AttachRaised(a, op, volume, m) ==
    [ a EXCEPT !.pc = "raised", !.exc = m, !.log = Append(@, Did(op, volume, FALSE)) ]

\* A variant of the loop body that requests the attachment of every volume
\* without detaching it first.
HandleAttachingAtOnce(a, i) ==
    IF i > Len(a.volumes) THEN [ a EXCEPT !.pc = "returned", !.i = i ]
    ELSE [ a EXCEPT !.pc = "attach", !.i = i ]

\* for volume in volumes: the i-th volume is detached first if it has a
\* server, else attached; after the last one the method returns.
Handle(a, i) ==
    IF i > Len(a.volumes) THEN [ a EXCEPT !.pc = "returned", !.i = i ]
    ELSE [ a EXCEPT !.pc = IF a.volumes[i].server THEN "detach" ELSE "attach", !.i = i ]

\* volumes = await loop.run_in_executor(None, get_volumes); if not volumes: return
VolumesListed ==
    /\ att.pc = "get_all"
    /\ \/ \E vols \in TaggedVolumes :
             att' = Handle([ att EXCEPT !.volumes = vols,
                                        !.log = Append(@, Did("volumes.get_all", 0, TRUE)) ], 1)
       \/ \E m \in CloudMsgs : att' = AttachRaised(att, "volumes.get_all", 0, m)
    /\ UNCHANGED << workflowVars, poll, mon, integ, sshc, am, body, twin, base >>

\* action = await loop.run_in_executor(None, detach)
DetachRequested ==
    /\ att.pc = "detach"
    /\ LET v == att.volumes[att.i].id
       IN  \/ att' = [ att EXCEPT !.pc = "wait_detach",
                                  !.log = Append(@, Did("volumes.detach", v, TRUE)) ]
           \/ \E m \in CloudMsgs : att' = AttachRaised(att, "volumes.detach", v, m)
    /\ UNCHANGED << workflowVars, poll, mon, integ, sshc, am, body, twin, base >>

\* await self._wait_for_action(action), for the detach action
DetachWaited ==
    /\ att.pc = "wait_detach"
    /\ LET v == att.volumes[att.i].id
       IN  \/ att' = [ att EXCEPT !.pc = "attach",
                                  !.log = Append(@, Did("wait detach", v, TRUE)) ]
           \/ \E m \in WaitErrors : att' = AttachRaised(att, "wait detach", v, m)
    /\ UNCHANGED << workflowVars, poll, mon, integ, sshc, am, body, twin, base >>

\* action = await loop.run_in_executor(None, attach)
AttachRequested ==
    /\ att.pc = "attach"
    /\ LET v == att.volumes[att.i].id
       IN  \/ att' = [ att EXCEPT !.pc = "wait_attach",
                                  !.log = Append(@, Did("volumes.attach", v, TRUE)) ]
           \/ \E m \in CloudMsgs : att' = AttachRaised(att, "volumes.attach", v, m)
    /\ UNCHANGED << workflowVars, poll, mon, integ, sshc, am, body, twin, base >>

\* await self._wait_for_action(action), for the attach action; then the
\* next volume
AttachWaited ==
    /\ att.pc = "wait_attach"
    /\ LET v == att.volumes[att.i].id
       IN  \/ att' = Handle([ att EXCEPT !.log = Append(@, Did("wait attach", v, TRUE)) ],
                            att.i + 1)
           \/ \E m \in WaitErrors : att' = AttachRaised(att, "wait attach", v, m)
    /\ UNCHANGED << workflowVars, poll, mon, integ, sshc, am, body, twin, base >>

NextAttach ==
    \/ AttachVolumes
    \/ VolumesListed
    \/ DetachRequested
    \/ DetachWaited
    \/ AttachRequested
    \/ AttachWaited

SpecAttach == Init /\ [][NextAttach]_vars

(***************************************************************************)
(* The thread a call is made on: the calls handed to loop.run_in_executor  *)
(* run on a worker thread; everything else a coroutine does between two    *)
(* awaits runs on the thread of the event loop.                            *)
(***************************************************************************)
WorkerThread == "worker thread"
EventLoopThread == "event-loop thread"

\* ssh_keys.get_all and servers.create inside create_server, get_action,
\* get_volumes, detach, attach and _run_command_sync go through
\* run_in_executor; sock.connect_ex, servers.delete of the restore test's
\* finally clause and ssh.close are called directly.
ThreadOf(e) ==
    CASE e.kind = "cloud" /\ e.name = "servers.delete" -> EventLoopThread
      [] e.kind = "cloud" /\ e.name # "servers.delete" -> WorkerThread
      [] e.kind = "ssh" -> WorkerThread
      [] OTHER -> EventLoopThread

(***************************************************************************)
(* The step bodies of both workflows, each run on its own.                 *)
(***************************************************************************)
Owners == { "RecoveryManager", "RestoreTester" }

StepsOf(owner) ==
    IF owner = "RecoveryManager" THEN { RecoveryStep[k] : k \in DOMAIN RecoveryStep }
    ELSE { TestSteps[k] : k \in DOMAIN TestSteps }

BodyRunsOf(owner, step) ==
    IF owner = "RecoveryManager" THEN StepRuns(step) ELSE TestRuns(step)

\* A step body is called, and runs until it returns or raises.
BodyRan(owner, step) ==
    /\ \E r \in BodyRunsOf(owner, step) :
          body' = [ owner |-> owner, step |-> step, run |-> r ]
    /\ UNCHANGED << workflowVars, poll, mon, integ, sshc, am, att, twin, base >>

NextBodies == \E owner \in Owners : \E step \in StepsOf(owner) : BodyRan(owner, step)

SpecBodies == Init /\ [][NextBodies]_vars

(***************************************************************************)
(* RestoreTester._wait_for_action (src/restore/tester.py), and the two     *)
(* polling loops side by side.                                             *)
(***************************************************************************)
\* await asyncio.sleep(5), in RestoreTester._wait_for_action
TesterPollInterval == 5

TesterActionTimeout(timeout) == "Action timed out after " \o ToString(timeout) \o "s"

\* A variant of the tester's loop body that keeps polling an action whose
\* status is error.
TesterActionStatusPollingOn(p, r, d) ==
    LET q == [ p EXCEPT !.elapsed = @ + d,
                        !.log = Append(@, Ev("fetch", r.status, r.error)) ]
    IN  IF r.status = "success"
        THEN [ q EXCEPT !.pc = "done", !.outcome = "returned" ]
        ELSE IF q.elapsed > q.timeout
        THEN [ q EXCEPT !.pc = "done", !.outcome = TesterActionTimeout(q.timeout) ]
        ELSE [ q EXCEPT !.pc = "sleep", !.log = Append(@, Asleep(TesterPollInterval)) ]

\* The loop body of RestoreTester._wait_for_action once the fetch has
\* returned r after d seconds.
TesterActionStatus(p, r, d) ==
    LET q == [ p EXCEPT !.elapsed = @ + d,
                        !.log = Append(@, Ev("fetch", r.status, r.error)) ]
    IN  IF r.status = "success"
        THEN [ q EXCEPT !.pc = "done", !.outcome = "returned" ]
        ELSE IF r.status = "error"
        THEN [ q EXCEPT !.pc = "done", !.outcome = "Hetzner action failed: " \o r.error ]
        ELSE IF q.elapsed > q.timeout
        THEN [ q EXCEPT !.pc = "done", !.outcome = TesterActionTimeout(q.timeout) ]
        ELSE [ q EXCEPT !.pc = "sleep", !.log = Append(@, Asleep(TesterPollInterval)) ]

\* The fetch raises: neither loop catches it.
FetchRaised(p, m, d) ==
    [ p EXCEPT !.elapsed = @ + d, !.log = Append(@, Ev("fetch", "raised", m)),
               !.pc = "done", !.outcome = m ]

\* Both loops are called with the same timeout.
BothWait(timeout) ==
    /\ twin.recovery.pc = "idle" /\ twin.tester.pc = "idle"
    /\ LET p == [ fn |-> "action", pc |-> "fetch", timeout |-> timeout, elapsed |-> 0,
                  log |-> << >>, outcome |-> None ]
       IN  twin' = [ recovery |-> p, tester |-> p ]
    /\ UNCHANGED << workflowVars, poll, mon, integ, sshc, am, att, body, base >>

\* Both fetches give the same answer after the same time.
BothFetched ==
    /\ twin.recovery.pc = "fetch" /\ twin.tester.pc = "fetch"
    /\ \E d \in FetchTimes :
          \/ \E r \in FetchResults :
                twin' = [ recovery |-> ActionStatus(twin.recovery, r, d),
                          tester |-> TesterActionStatus(twin.tester, r, d) ]
          \/ \E m \in CloudMsgs :
                twin' = [ recovery |-> FetchRaised(twin.recovery, m, d),
                          tester |-> FetchRaised(twin.tester, m, d) ]
    /\ UNCHANGED << workflowVars, poll, mon, integ, sshc, am, att, body, base >>

\* Both sleeps return.
BothSlept ==
    /\ twin.recovery.pc = "sleep" /\ twin.tester.pc = "sleep"
    /\ twin' = [ recovery |-> [ twin.recovery EXCEPT !.elapsed = @ + PollInterval,
                                                     !.pc = "fetch" ],
                 tester |-> [ twin.tester EXCEPT !.elapsed = @ + TesterPollInterval,
                                                 !.pc = "fetch" ] ]
    /\ UNCHANGED << workflowVars, poll, mon, integ, sshc, am, att, body, base >>

NextTwin ==
    \/ \E timeout \in Timeouts : BothWait(timeout)
    \/ BothFetched
    \/ BothSlept

SpecTwin == Init /\ [][NextTwin]_vars

(***************************************************************************)
(* Properties.                                                             *)
(***************************************************************************)
Severity(c, sev) == SelectSeq(alerts[c], LAMBDA a : a.sev = sev)

Rejected(f) == f.pc = "raised" /\ f.st = 0

Finished(f) == f.pc \in {"returned", "raised"}

InitiationAlert == AlertEff("critical", "Disaster Recovery Initiated", "-")

ApprovalRequest == AlertEff("critical", "Action Required: Approve Recovery", "-")

FailureNotice(step) == AlertEff("critical", "Disaster Recovery FAILED", step)

\* C1: at any time at most one initiate_recovery call is executing recovery
\* steps, it works on the manager's current RecoveryState, and no other
\* RecoveryState lacks a completion timestamp.
C1_SingleAttemptExecuting ==
    /\ Cardinality({ c \in DOMAIN calls : calls[c].pc = "step" }) <= 1
    /\ \A c \in DOMAIN calls : calls[c].pc = "step" => calls[c].st = current
    /\ \A i \in DOMAIN heap : heap[i].completed_at = NoneTime => i = current

\* A call executes steps while an earlier call is still suspended in its
\* final alert.
C1_Witness ==
    \E c1, c2 \in DOMAIN calls :
        /\ calls[c1].pc \in {"success_alert", "failure_alert"}
        /\ calls[c2].pc = "step"
        /\ heap[calls[c2].st].completed_steps # << >>

\* C2: a call of initiate_recovery made while the current RecoveryState has
\* no completed_at raises 'Recovery already in progress', whatever auto_approve.
C2_InFlightAlwaysRaises ==
    [][ (Len(calls') = Len(calls) + 1 /\ current # 0
            /\ heap[current].completed_at = NoneTime)
        => ( /\ calls'[Len(calls')].pc = "raised"
             /\ calls'[Len(calls')].exc = AlreadyInProgress
             /\ calls'[Len(calls')].st = 0 ) ]_vars

\* A call with auto_approve=False is turned away while the attempt in
\* flight is executing a step.
C2_Witness ==
    \E c1, c2 \in DOMAIN calls :
        /\ calls[c1].pc = "step"
        /\ Rejected(calls[c2]) /\ ~ calls[c2].auto

\* C3: a rejected call changes nothing: the current RecoveryState is the same
\* object with the same fields, the call has sent no alert and made no
\* outside call, and nothing was created at the provider.
C3_RejectionHasNoEffect ==
    [][ (Len(calls') = Len(calls) + 1 /\ Rejected(calls'[Len(calls')]))
        => ( /\ heap' = heap
             /\ current' = current
             /\ stamped' = stamped
             /\ servers' = servers
             /\ alerts'[Len(calls')] = << >>
             /\ ext'[Len(calls')] = {}
             /\ \A c \in DOMAIN calls :
                   alerts'[c] = alerts[c] /\ ext'[c] = ext[c] /\ calls'[c] = calls[c] ) ]_vars

\* A call is rejected while the attempt in flight has already completed steps.
C3_Witness ==
    \E c \in DOMAIN calls :
        /\ Rejected(calls[c])
        /\ current # 0
        /\ heap[current].completed_at = NoneTime
        /\ Len(heap[current].completed_steps) >= 2

\* C4: a call with auto_approve=False never makes a cloud, volume or remote
\* shell call, and when it returns its state has no current step, no
\* completed step, and the call has sent exactly the initiation notice and
\* then the approval request.
C4_ApprovalGate ==
    \A c \in DOMAIN calls :
        ~ calls[c].auto /\ ~ Rejected(calls[c]) =>
            /\ ext[c] = {}
            /\ calls[c].pc \in {"init_alert", "approval_alert", "returned", "raised"}
            /\ calls[c].pc = "returned" =>
                  /\ heap[calls[c].st].current_step = None
                  /\ heap[calls[c].st].completed_steps = << >>
                  /\ alerts[c] = << InitiationAlert, ApprovalRequest >>

C4_Witness ==
    \E c \in DOMAIN calls : ~ calls[c].auto /\ calls[c].pc = "returned"

\* C5 (as claimed): when every step body has succeeded, the returned state
\* has all eight steps completed in order, no failed step, no error,
\* completed_at set, and the call sent exactly one info alert, as its last.
C5_AsClaimed ==
    \A c \in DOMAIN calls :
        calls[c].auto /\ calls[c].pc = "returned" /\ calls[c].raisedStep = 0 =>
            LET s == heap[calls[c].st]
            IN  /\ s.completed_steps = RecoveryStep
                /\ s.failed_step = None
                /\ s.error = None
                /\ s.completed_at # NoneTime
                /\ Len(Severity(c, "info")) = 1
                /\ alerts[c][Len(alerts[c])].sev = "info"

\* C6 (as claimed): when the body of step N raises, the returned state has
\* exactly the first N-1 steps completed, failed_step = step N, a non-empty
\* error and completed_at set.
C6_AsClaimed ==
    \A c \in DOMAIN calls :
        calls[c].pc = "returned" /\ calls[c].raisedStep # 0 =>
            LET s == heap[calls[c].st]
                n == calls[c].raisedStep
            IN  /\ s.completed_steps = SubSeq(RecoveryStep, 1, n - 1)
                /\ s.failed_step = RecoveryStep[n]
                /\ s.error # None
                /\ s.error # ""
                /\ s.completed_at # NoneTime

\* C7 (as claimed): when step N raises, the call sends exactly one alert of
\* severity critical, and it names step N.
C7_AsClaimed ==
    \A c \in DOMAIN calls :
        Finished(calls[c]) /\ calls[c].raisedStep # 0 =>
            /\ Len(Severity(c, "critical")) = 1
            /\ Severity(c, "critical")[1].step = RecoveryStep[calls[c].raisedStep]

\* C7 (amended): when step N raises, the call sends exactly two alerts of
\* severity critical: the initiation notice, which names no step and is the
\* first alert of the call, and the failure alert, which names step N and is
\* the last alert of the call.
C7_TwoCriticalAlerts ==
    \A c \in DOMAIN calls :
        calls[c].raisedStep # 0 =>
            /\ alerts[c][1] = InitiationAlert
            /\ Finished(calls[c]) =>
                  /\ Severity(c, "critical")
                       = << InitiationAlert, FailureNotice(RecoveryStep[calls[c].raisedStep]) >>
                  /\ alerts[c][Len(alerts[c])]
                       = FailureNotice(RecoveryStep[calls[c].raisedStep])
            /\ ~ Finished(calls[c]) => Severity(c, "critical") = << InitiationAlert >>

\* The verify step has raised after some steps completed, and the call has returned.
C7_Witness ==
    \E c \in DOMAIN calls :
        calls[c].raisedStep = 7 /\ calls[c].pc = "returned"

\* C8: is_complete is true exactly when completed_at is set, and a
\* completed_at that is set is still set after every step of every call.
C8_CompleteIsSticky ==
    [][ \A i \in DOMAIN heap :
          /\ is_complete(heap[i]) <=> heap[i].completed_at # NoneTime
          /\ is_complete(heap'[i]) <=> heap'[i].completed_at # NoneTime
          /\ heap[i].completed_at # NoneTime => heap'[i].completed_at # NoneTime ]_vars

\* A state was completed, its handler ran again after the success alert
\* raised, and a later attempt has replaced it as the current one.
C8_Witness ==
    \E i \in DOMAIN heap :
        /\ heap[i].completed_at # NoneTime
        /\ heap[i].failed_step # None
        /\ current # i
        /\ heap[current].completed_at = NoneTime

\* C9 (as claimed): in an attempt that executes steps, completed_at is
\* assigned exactly once, whatever the step bodies and the alert sends do.
C9_AsClaimed ==
    \A c \in DOMAIN calls :
        calls[c].auto /\ ~ Rejected(calls[c]) =>
            /\ stamped[calls[c].st] <= 1
            /\ (Finished(calls[c]) /\ heap[calls[c].st].current_step # None)
                  => stamped[calls[c].st] = 1

\* C10 (as claimed): a call of initiate_recovery made when no recovery is in
\* flight, and a call of run_restore_test, never end by raising.
C10_AsClaimed ==
    /\ \A c \in DOMAIN calls : calls[c].pc = "raised" => Rejected(calls[c])
    /\ \A t \in DOMAIN tests : tests[t].pc # "raised"

(***************************************************************************)
(* Properties of run_restore_test.                                         *)
(***************************************************************************)
Report(sev) == AlertEff(sev, "Backup Restore Test Report", "-")

CleanupErrors == { "Cleanup failed: " \o m : m \in CloudMsgs }

CleanupFailed(res) == \E i \in DOMAIN res.errors : res.errors[i] \in CleanupErrors

Destroyed(res) == \E i \in DOMAIN res.steps_completed :
                     res.steps_completed[i] = "server_destroyed"

\* C11 (as claimed): whatever steps succeed or fail, provisioning included,
\* the returned result has "server_destroyed" among its completed steps or
\* a cleanup-failure message among its errors.
C11_AsClaimed ==
    \A t \in DOMAIN tests :
        tests[t].pc = "returned" =>
            Destroyed(tests[t].result) \/ CleanupFailed(tests[t].result)

\* C12 (as claimed): an instance whose creation request succeeded has had a
\* destroy call issued for it by the time run_restore_test returns.
C12_AsClaimed ==
    \A t \in DOMAIN tests :
        tests[t].pc = "returned" /\ tests[t].made # NoneId =>
            tests[t].made \in tests[t].deletes

\* C13 (as claimed): in the returned result, success is true exactly when
\* errors is empty and every verification check is true.
C13_AsClaimed ==
    \A t \in DOMAIN tests :
        tests[t].pc = "returned" =>
            LET res == tests[t].result
            IN  res.success <=> (res.errors = << >> /\ AllPassed(res.verification_results))

\* C14: every run_restore_test call sends exactly one alert, the report; it
\* is sent after the destroy attempt and after end_time is set, and its
\* severity is info when result.success is true and warning otherwise.
C14_OneReportAtTheEnd ==
    \A t \in DOMAIN tests :
        LET T == tests[t]
        IN  /\ T.pc \notin {"returned", "raised"} => T.alerts = << >>
            /\ T.pc \in {"report", "returned", "raised"} =>
                  /\ T.result.end_time # NoneTime
                  /\ T.server # NoneId => T.server \in T.deletes
            /\ T.pc \in {"returned", "raised"} =>
                  T.alerts = << Report(IF T.result.success THEN "info" ELSE "warning") >>

\* A test whose verification found a failed check, without any error, has
\* destroyed its server and reported with severity warning.
C14_Witness ==
    \E t \in DOMAIN tests :
        /\ tests[t].pc = "returned"
        /\ tests[t].result.errors = << >>
        /\ ~ tests[t].result.success
        /\ Destroyed(tests[t].result)
        /\ tests[t].alerts = << Report("warning") >>

\* C15 (as claimed): when a workflow step raised and the destruction raised
\* too, errors is the step's error followed by a 'Cleanup failed' entry,
\* success is false, and run_restore_test does not raise.
C15_AsClaimed ==
    \A t \in DOMAIN tests :
        LET T == tests[t]
        IN  /\ T.pc \in {"returned", "raised"}
            /\ T.stepExc # None
            /\ CleanupFailed(T.result)
            => /\ Len(T.result.errors) = 2
               /\ T.result.errors[1] = T.stepExc
               /\ T.result.errors[2] \in CleanupErrors
               /\ ~ T.result.success
               /\ T.pc # "raised"

(***************************************************************************)
(* Properties of the wait loops.                                           *)
(***************************************************************************)
AllRunning(log) ==
    \A i \in DOMAIN log : log[i].ev = "fetch" => log[i].arg = "running"

ActionPolling ==
    poll.fn = "action" =>
        LET log == poll.log
        IN  /\ \A i \in DOMAIN log :
                  IF i % 2 = 1 THEN log[i].ev = "fetch" ELSE log[i] = Asleep(PollInterval)
            /\ \A i \in DOMAIN log : i < Len(log) /\ log[i].ev = "fetch" =>
                  log[i].arg \in OtherStatuses
            /\ poll.pc = "done" /\ log[1].arg = "success" =>
                  poll.outcome = "returned" /\ Len(log) = 1
            /\ poll.pc = "done" /\ log[1].arg = "error" =>
                  /\ poll.outcome = "Hetzner action failed: " \o log[1].detail
                  /\ Len(log) = 1
            /\ poll.pc = "done" /\ AllRunning(log) =>
                  poll.outcome = ActionTimeout(poll.timeout)
            /\ poll.pc = "sleep" => poll.elapsed <= poll.timeout

\* C16: _wait_for_action returns without a sleep when the first status is
\* "success", raises with the provider's error detail without a sleep when
\* it is "error", sleeps exactly one 5-second interval between two
\* consecutive fetches, and, when every fetch says "running", ends by
\* raising the TimeoutError.
C16_ActionPolling ==
    /\ [] ActionPolling
    /\ (poll.fn = "action") ~> (poll.pc = "done")

\* Three fetches said "running", with one 5-second sleep after each of the
\* first two, and the loop raised the TimeoutError.
C16_Witness ==
    /\ poll.fn = "action" /\ poll.pc = "done"
    /\ AllRunning(poll.log)
    /\ Len(poll.log) = 5
    /\ poll.outcome = ActionTimeout(poll.timeout)

\* C17: _wait_for_ssh returns only after a successful connect followed by
\* one 5-second settle sleep; after a failed attempt (errno or socket error)
\* it sleeps 10 seconds and tries again, or raises the TimeoutError once the
\* elapsed time exceeds the timeout; it ends in no other way.
C17_SshWaiting ==
    poll.fn = "ssh" =>
        LET log == poll.log
            n == Len(log)
        IN  /\ \A i \in DOMAIN log :
                  IF i % 2 = 1 THEN log[i].ev = "connect"
                  ELSE log[i] = Asleep(IF log[i - 1].arg = "0" THEN SettleDelay
                                       ELSE RetryInterval)
            /\ \A i \in DOMAIN log : log[i].ev = "connect" /\ log[i].arg = "0" => i = n - 1
            /\ poll.pc = "done" => poll.outcome \in {"returned", SshTimeout(poll.timeout)}
            /\ poll.pc = "done" /\ poll.outcome = "returned" =>
                  /\ n >= 2
                  /\ log[n - 1] = Ev("connect", "0", None)
                  /\ log[n] = Asleep(SettleDelay)
            /\ poll.pc = "done" /\ poll.outcome # "returned" =>
                  /\ log[n].ev = "connect" /\ log[n].arg # "0"
                  /\ poll.elapsed > poll.timeout
            /\ poll.pc = "retry" => poll.elapsed <= poll.timeout

\* A socket error, a 10-second sleep, then a successful connect, the settle
\* sleep and the return.
C17_Witness ==
    /\ poll.fn = "ssh" /\ poll.pc = "done" /\ poll.outcome = "returned"
    /\ poll.log = << Ev("connect", "socket.error", None), Asleep(RetryInterval),
                     Ev("connect", "0", None), Asleep(SettleDelay) >>

(***************************************************************************)
(* Properties of BackupMonitor.check.                                      *)
(***************************************************************************)
\* C18 (as claimed): check() returns OK or CRITICAL only, and CRITICAL
\* exactly when the local backup is older than the threshold, or the
\* repository query errored or its archive is stale, or the log tail has
\* error lines, or an exception occurred during the check.
C18_AsClaimed ==
    mon.pc = "returned" =>
        /\ mon.last_result.status \in {OK, CRITICAL}
        /\ mon.last_result.status = CRITICAL <=>
              \/ mon.trueAge > mon.threshold * 1000
              \/ mon.repoErrored
              \/ mon.repoStale
              \/ mon.logErrors
              \/ mon.excepted

\* C19: a check() that yields CRITICAL has made exactly one send_alert
\* call, of severity critical with the joined issues as its message; a
\* check() that yields OK has made none.
C19_OneCriticalAlert ==
    mon.pc = "returned" =>
        /\ mon.last_result.status = CRITICAL =>
              /\ Len(mon.alerts) = 1
              /\ mon.alerts[1].sev = "critical"
              /\ mon.alerts[1].message = Join(mon.issues)
              /\ mon.issues # << >>
        /\ mon.last_result.status = OK => mon.alerts = << >>

\* A check that found two issues returned CRITICAL after one alert.
C19_Witness ==
    /\ mon.pc = "returned"
    /\ mon.last_result.status = CRITICAL
    /\ Len(mon.issues) = 2
    /\ Len(mon.alerts) = 1

\* C20 (as claimed): when no local backup file is present, the verdict of
\* check() is CRITICAL whatever the threshold, the repository and the log
\* give, and details.local.exists is False.
C20_AsClaimed ==
    mon.pc \in {"alert", "returned", "raised"} /\ mon.noFile =>
        /\ mon.status = CRITICAL
        /\ mon.details["local"]["exists"] = FALSE

\* C21 (as claimed): with a repository configured whose latest archive is
\* older than twice the threshold, a fresh local backup, a repository query
\* that did not error and no log errors, check() records a repository
\* staleness issue and returns CRITICAL.
C21_AsClaimed ==
    ( /\ mon.pc = "returned"
      /\ mon.borg_repo
      /\ mon.repoStale
      /\ ~ mon.repoErrored
      /\ mon.trueAge >= 0 /\ mon.trueAge <= mon.threshold * 1000
      /\ ~ mon.logErrors
      /\ ~ mon.excepted )
    => /\ mon.last_result.status = CRITICAL
       /\ mon.issues # << >>

(***************************************************************************)
(* Properties of BackupMonitor.verify_integrity.                           *)
(***************************************************************************)
\* C22: with no repository configured, verify_integrity() returns a result
\* with skipped true, runs no remote command, sends no alert, and sets the
\* integrity gauge to -1 (not checked) and to nothing else.
C22_SkippedWithoutRepository ==
    integ.pc # "idle" /\ ~ integ.borg_repo =>
        /\ integ.pc = "returned"
        /\ integ.result.skipped = TRUE
        /\ integ.cmds = << >>
        /\ integ.alerts = << >>
        /\ integ.gauge = << -1 >>

C22_Witness ==
    integ.pc = "returned" /\ ~ integ.borg_repo /\ integ.gauge = << -1 >>

\* C23 (as claimed): with a repository configured, a returned result has
\* passed true exactly when the marker is in the output; a finished call
\* whose output lacks the marker or whose command raised has made exactly
\* one send_alert call, of severity critical; one that passed has made
\* none; and when the command raised the call returns passed false with the
\* command's error text and does not raise.
C23_AsClaimed ==
    integ.pc \in {"returned", "raised"} /\ integ.borg_repo =>
        /\ integ.pc = "returned" => (integ.result.passed <=> integ.marker)
        /\ ~ integ.marker =>
              Len(integ.alerts) = 1 /\ integ.alerts[1].sev = "critical"
        /\ integ.marker => integ.alerts = << >>
        /\ integ.cmdRaised =>
              /\ integ.pc = "returned"
              /\ integ.result = [ passed |-> FALSE, error |-> integ.err ]

(***************************************************************************)
(* Properties of the steps of a recovery.                                  *)
(***************************************************************************)
VerificationWarning == AlertEff("warning", "Recovery Verification Warnings", "-")

\* C24 (as claimed): a call whose verify step ran its checks and found
\* issues (it made the send_alert call for them) has sent that alert once,
\* with severity warning, has verify among its completed steps, and has
\* gone on to update_dns: verify is not the failed step.
C24_AsClaimed ==
    \A c \in DOMAIN calls :
        (\E i \in DOMAIN alerts[c] : alerts[c][i].name = VerificationWarning.name) =>
            LET s == heap[calls[c].st]
            IN  /\ Len(SelectSeq(alerts[c], LAMBDA a : a = VerificationWarning)) = 1
                /\ Len(s.completed_steps) >= StepIndex(VERIFY)
                /\ s.completed_steps[StepIndex(VERIFY)] = VERIFY
                /\ s.failed_step # VERIFY

C26_StepsInFixedOrder ==
    /\ \A i \in DOMAIN heap :
          /\ Len(heap[i].completed_steps) <= Len(RecoveryStep)
          /\ heap[i].completed_steps
                = SubSeq(RecoveryStep, 1, Len(heap[i].completed_steps))
    /\ \A c \in DOMAIN calls :
          calls[c].pc = "step" =>
              /\ Len(heap[calls[c].st].completed_steps) < Len(RecoveryStep)
              /\ heap[calls[c].st].current_step
                    = RecoveryStep[Len(heap[calls[c].st].completed_steps) + 1]

\* A call is executing update_dns with the seven steps before it completed,
\* after an earlier attempt of the same manager failed in restore_backup.
C26_Witness ==
    \E c \in DOMAIN calls, i \in DOMAIN heap :
        /\ calls[c].pc = "step"
        /\ heap[calls[c].st].current_step = UPDATE_DNS
        /\ Len(heap[calls[c].st].completed_steps) = 7
        /\ heap[i].failed_step = RESTORE_BACKUP
        /\ Len(heap[i].completed_steps) = 4

(***************************************************************************)
(* Properties of AlertManager.                                             *)
(***************************************************************************)
\* The channels enabled by the settings of the manager.
Enabled(channel) ==
    IF channel = "email" THEN am.settings.email_enabled
    ELSE am.settings.webhook_enabled /\ am.settings.webhook_url # ""

\* The k-th send_alert call was made within the cooldown window of an
\* earlier call i with the same severity and title that was not suppressed,
\* with no clear_cooldown for that alert or for all alerts in between.
InWindow(k) ==
    \E i \in 1..(k - 1) :
        /\ am.sends[i].severity = am.sends[k].severity
        /\ am.sends[i].title = am.sends[k].title
        /\ am.sends[i].passed
        /\ am.sends[k].at - am.sends[i].at <= CooldownMinutes
        /\ ~ \E c \in DOMAIN am.clears :
                /\ am.clears[c].after >= i
                /\ am.clears[c].after < k
                /\ am.clears[c].alert_id
                      \in { "", AlertId(am.sends[k].severity, am.sends[k].title) }

\* C27: send_alert deduplicates by severity and title.  A call made within
\* the cooldown window of an earlier, unsuppressed call with the same
\* severity and title returns False and tries no channel, whatever its
\* message; any other call (the first one, one made after the cooldown has
\* elapsed, one made after clear_cooldown for that alert or for all alerts,
\* one that differs in severity or title) is delivered: once it has
\* returned, every enabled channel was tried.
C27_CooldownBySeverityAndTitle ==
    am.made =>
        \A k \in DOMAIN am.sends :
            LET f == am.sends[k]
            IN  IF InWindow(k)
                THEN /\ f.pc = "returned" /\ ~ f.result
                     /\ f.email = "-" /\ f.webhook = "-"
                ELSE /\ f.passed
                     /\ f.pc = "returned" =>
                           /\ (f.email # "-") <=> Enabled("email")
                           /\ (f.webhook # "-") <=> Enabled("webhook")
                           /\ f.result <=> (f.email \in { "sent", "no recipients" }
                                            \/ f.webhook = "sent")

\* An alert was mailed; sent again with another message when the cooldown
\* was just over it was suppressed and returned False.
C27_Witness ==
    /\ am.made
    /\ Len(am.sends) = 2
    /\ am.sends[1].severity = am.sends[2].severity
    /\ am.sends[1].pc = "returned" /\ am.sends[1].email = "sent" /\ am.sends[1].result
    /\ am.sends[2].at = CooldownMinutes
    /\ am.sends[2].message # am.sends[1].message
    /\ am.sends[2].pc = "returned" /\ ~ am.sends[2].passed /\ ~ am.sends[2].result

(***************************************************************************)
(* Properties of _attach_volumes.                                          *)
(***************************************************************************)
\* The requests and waits of _attach_volumes so far that concern volume v.
Concerning(v) == { p \in DOMAIN att.log : att.log[p].volume = v }

\* C28: in _attach_volumes, a volume that is attached to a server gets its
\* attach request only after its detach action has been waited for with
\* success; nothing is done for another volume between the attach request
\* for a volume and the successful wait for that attach action; a volume
\* that is not attached gets no detach request; and when no tagged volume
\* is listed the method returns without any detach or attach request.
C28_DetachThenAttachInTurn ==
    att.pc # "idle" =>
        /\ \A p \in DOMAIN att.log :
              att.log[p].op = "volumes.attach" /\ att.volumes[att.log[p].volume].server =>
                  \E q \in 1..(p - 1), r \in 1..(p - 1) :
                      /\ q < r
                      /\ att.log[q] = Did("volumes.detach", att.log[p].volume, TRUE)
                      /\ att.log[r] = Did("wait detach", att.log[p].volume, TRUE)
        /\ \A p, q \in DOMAIN att.log :
              ( /\ p < q
                /\ att.log[p].op = "volumes.attach"
                /\ att.log[q].volume # att.log[p].volume )
              => \E r \in (p + 1)..(q - 1) :
                    att.log[r] = Did("wait attach", att.log[p].volume, TRUE)
        /\ \A p \in DOMAIN att.log :
              att.log[p].op = "volumes.detach" => att.volumes[att.log[p].volume].server
        /\ \A v \in DOMAIN att.volumes :
              Cardinality({ p \in Concerning(v) : att.log[p].op = "volumes.attach" }) <= 1
        /\ att.pc = "returned" =>
              \A v \in DOMAIN att.volumes :
                  \E p \in Concerning(v) : att.log[p] = Did("wait attach", v, TRUE)
        /\ att.pc \notin { "get_all", "raised" } /\ att.volumes = << >> =>
              att.pc = "returned" /\ att.log = << Did("volumes.get_all", 0, TRUE) >>

\* Of two tagged volumes the first was attached to a server and the second
\* was not: the first was detached and attached, then the second attached.
C28_Witness ==
    /\ att.pc = "returned"
    /\ Len(att.volumes) = 2
    /\ att.volumes[1].server /\ ~ att.volumes[2].server
    /\ att.log = << Did("volumes.get_all", 0, TRUE),
                    Did("volumes.detach", 1, TRUE), Did("wait detach", 1, TRUE),
                    Did("volumes.attach", 1, TRUE), Did("wait attach", 1, TRUE),
                    Did("volumes.attach", 2, TRUE), Did("wait attach", 2, TRUE) >>

(***************************************************************************)
(* Properties of the step bodies.                                          *)
(***************************************************************************)
\* The step bodies that obtain a remote-shell client (_get_ssh_client).
ShellSteps(owner) ==
    IF owner = "RecoveryManager"
    THEN { INSTALL_GITLAB, RESTORE_CONFIG, RESTORE_BACKUP, RECONFIGURE, VERIFY }
    ELSE { "install", "restore", "verify" }

Closes(eff) == { p \in DOMAIN eff : eff[p].kind = "ssh.close" }

\* C29: every step body that obtains a remote-shell client has closed it
\* exactly once when the body exits, by return or by exception, and uses
\* it for no command after that: the close is the last call of the body.
C29_ClientClosedOnce ==
    body.owner \in Owners /\ body.step \in ShellSteps(body.owner) =>
        /\ Cardinality(Closes(body.run.eff)) = 1
        /\ Closes(body.run.eff) = { Len(body.run.eff) }

\* The restore step of a restore test raised its own error for a missing
\* backup file, after six commands, and closed the client.
C29_Witness ==
    /\ body.owner = "RestoreTester" /\ body.step = "restore"
    /\ ~ body.run.ok /\ body.run.exc = NoBackupFile
    /\ Len(body.run.eff) = 8
    /\ body.run.eff[8].kind = "ssh.close"

(***************************************************************************)
(* Properties of the two polling loops.                                    *)
(***************************************************************************)
\* C30: given the same timeout and the same provider answers, the
\* _wait_for_action of RecoveryManager and that of RestoreTester are at the
\* same point after the same fetches and sleeps, and end with the same
\* outcome: return, the provider's failure, or the timeout error.
C30_SamePollingProtocol ==
    /\ twin.recovery.pc = twin.tester.pc
    /\ twin.recovery.log = twin.tester.log
    /\ twin.recovery.elapsed = twin.tester.elapsed
    /\ twin.recovery.outcome = twin.tester.outcome

\* Both loops gave up with the timeout error after three fetches and two
\* sleeps.
C30_Witness ==
    /\ twin.recovery.pc = "done" /\ twin.tester.pc = "done"
    /\ twin.tester.outcome = ActionTimeout(twin.recovery.timeout)
    /\ twin.recovery.outcome = TesterActionTimeout(twin.tester.timeout)
    /\ Len(twin.tester.log) = 5

(***************************************************************************)
(* Properties settled last: the remaining ones of every component.         *)
(***************************************************************************)
\* The remote commands a check() has issued so far.
Issued(m) == { m.cmds[i] : i \in DOMAIN m.cmds }

\* C31 (as claimed): when check() finds no local backup file, the same
\* invocation records a local-staleness issue, still queries the repository
\* (if one is configured) and scans the log tail, and its details hold the
\* local entry, the repository entry (if configured) and the log entry
\* whenever those commands did not raise.
C31_AsClaimed ==
    ( mon.pc \in { "alert", "returned", "raised" } /\ mon.noFile ) =>
        /\ "tail" \in Issued(mon)
        /\ mon.borg_repo => "borg list" \in Issued(mon)
        /\ Has(mon.details, "local")
        /\ mon.borg_repo => Has(mon.details, "borg")
        /\ ~ mon.excepted => Has(mon.details, "log")

\* C32 (as claimed): when the service status shows no service down, the
\* integrity check output has no failure marker and the health and readiness
\* endpoints both answer 200, the verify step of a recovery records no issue
\* and sends no warning alert.
C32_AsClaimed ==
    ( /\ body.owner = "RecoveryManager"
      /\ body.step = VERIFY
      /\ body.run \in VerifyRunsGiven(FALSE, FALSE, "200", "200") ) =>
        \A i \in DOMAIN body.run.eff : body.run.eff[i].kind # "alert"

\* The calls that block the thread they are made on: cloud SDK calls, remote
\* command execution, TCP connects.
Blocking(e) == e.kind \in { "cloud", "ssh", "tcp" }

\* C33 (as claimed): in the recovery and restore-test workflows every
\* blocking call (cloud SDK call, remote command, TCP connect) of a step
\* body runs on a worker thread, never on the thread of the event loop.
C33_AsClaimed ==
    \A i \in DOMAIN body.run.eff :
        Blocking(body.run.eff[i]) => ThreadOf(body.run.eff[i]) = WorkerThread

RECURSIVE TrailingCriticals(_)
\* The length of the run of CRITICAL results at the end of a sequence.
TrailingCriticals(results) ==
    IF results = << >> THEN 0
    ELSE IF results[Len(results)].status # CRITICAL THEN 0
    ELSE 1 + TrailingCriticals(SubSeq(results, 1, Len(results) - 1))

\* C34: after any sequence of recorded results, the consecutive-failure
\* counter of a monitor is the length of the trailing run of CRITICAL
\* results (0 when the latest result is not CRITICAL), and the retained last
\* result is the one recorded most recently.
C34_ConsecutiveFailures ==
    /\ base.consecutive_failures = TrailingCriticals(base.recorded)
    /\ base.recorded # << >> => base.last_result = base.recorded[Len(base.recorded)]

C34_Witness ==
    /\ Len(base.recorded) = 4
    /\ [ i \in 1..4 |-> base.recorded[i].status ] = << CRITICAL, WARNING, CRITICAL, CRITICAL >>
    /\ base.consecutive_failures = 2
    /\ base.last_result = CheckResult(CRITICAL, "second")
    /\ base.recorded[3] = CheckResult(CRITICAL, "first")

(***************************************************************************)
(* Properties of the wait loops, continued.                                *)
(***************************************************************************)
\* The polls a loop has made: status fetches or connect attempts.
Polls(log) == Cardinality({ i \in DOMAIN log : log[i].ev \in { "fetch", "connect" } })

\* The most polls a loop with this timeout makes: one at the start, one
\* after each sleep that began within the timeout.
MostPolls(p) ==
    p.timeout \div (IF p.fn = "action" THEN PollInterval ELSE RetryInterval) + 2

\* C35: for every sequence of statuses and connect results and every
\* timeout, _wait_for_action and _wait_for_ssh end (return or raise), each
\* sleep advancing the clock by its length; the number of polls is at most
\* the timeout divided by the sleep interval, plus two.
C35_WaitLoopsTerminate ==
    /\ [] (poll.pc # "idle" => Polls(poll.log) <= MostPolls(poll))
    /\ (poll.pc # "idle") ~> (poll.pc = "done")

\* Four fetches under a timeout of 10 seconds, none ending the wait: at 0,
\* 5 and 10 seconds the deadline has not passed, at 15 it has.
C35_Witness ==
    /\ poll.fn = "action" /\ poll.pc = "done"
    /\ poll.timeout = 2 * PollInterval
    /\ Polls(poll.log) = MostPolls(poll)
    /\ poll.outcome = ActionTimeout(poll.timeout)

(***************************************************************************)
(* Properties of RecoveryManager, continued.                               *)
(***************************************************************************)
\* A call with auto_approve=False that has returned its state.
Paused(f) == f.pc = "returned" /\ ~ f.auto

\* C36: once initiate_recovery(auto_approve=False) has returned, its state
\* stays the manager's current state and is never changed, so completed_at
\* stays unset; every later call, with either value of auto_approve, raises
\* 'Recovery already in progress'; and no call of the manager executes a
\* recovery step from then on.
C36_PausedForever ==
    [][ \A c \in DOMAIN calls : Paused(calls[c]) =>
          /\ current = calls[c].st /\ current' = current
          /\ heap[current].completed_at = NoneTime
          /\ heap'[current] = heap[current]
          /\ Len(calls') > Len(calls) =>
                /\ Rejected(calls'[Len(calls')])
                /\ calls'[Len(calls')].exc = AlreadyInProgress
          /\ \A d \in DOMAIN calls : calls[d].pc # "step" /\ ext'[d] = ext[d]
          /\ \A i \in DOMAIN heap : heap'[i].completed_steps = heap[i].completed_steps
      ]_vars

\* A call with auto_approve=True is turned away after a call with
\* auto_approve=False has returned.
C36_Witness ==
    \E c1, c2 \in DOMAIN calls :
        /\ Paused(calls[c1])
        /\ c2 > c1 /\ calls[c2].auto
        /\ Rejected(calls[c2]) /\ calls[c2].exc = AlreadyInProgress
        /\ current = calls[c1].st

\* C37 (as claimed): in every RecoveryState the failed step is not among the
\* completed steps, and a state with completed_at set has either failed_step
\* and error both set or all eight steps completed, never both and never
\* neither, whatever the step bodies and the alert sends do.
C37_AsClaimed ==
    \A i \in DOMAIN heap :
        LET s == heap[i]
            failed == s.failed_step # None /\ s.error # None
            allDone == Len(s.completed_steps) = Len(RecoveryStep)
        IN  /\ \A k \in DOMAIN s.completed_steps : s.completed_steps[k] # s.failed_step
            /\ s.completed_at # NoneTime => (failed /\ ~ allDone) \/ (allDone /\ ~ failed)

\* A fetch that gave a status other than "success" and "error".
Pending(e) == e.ev = "fetch" /\ e.arg \in OtherStatuses

\* C38: in the action-polling loop a status other than "success" and
\* "error", recognised or not, never ends the wait by a return or by the
\* provider-failure error: after such a fetch the loop sleeps and fetches
\* again, or raises the timeout error; a wait whose fetches all gave such a
\* status ends by the timeout error only.
C38_OtherStatusIsPending ==
    poll.fn = "action" =>
        LET log == poll.log
        IN  /\ \A i \in DOMAIN log : Pending(log[i]) =>
                  IF i < Len(log) THEN log[i + 1] = Asleep(PollInterval)
                  ELSE /\ poll.pc = "done"
                       /\ poll.outcome = ActionTimeout(poll.timeout)
                       /\ poll.elapsed > poll.timeout
            /\ ( poll.pc = "done" /\ \A i \in DOMAIN log : log[i].ev = "fetch" => Pending(log[i]) )
                  => poll.outcome = ActionTimeout(poll.timeout)

\* Two fetches gave a status the code does not know; the first was followed
\* by a sleep, the second by the timeout error.
C38_Witness ==
    /\ poll.fn = "action" /\ poll.pc = "done"
    /\ poll.log = << Ev("fetch", "unknown", None), Asleep(PollInterval),
                     Ev("fetch", "unknown", None) >>
    /\ poll.outcome = ActionTimeout(poll.timeout)

(***************************************************************************)
(* Properties of AlertManager, continued.                                  *)
(***************************************************************************)
\* The send_alert calls up to the k-th that passed the cooldown check.
Passing(k) == { i \in 1..k : am.sends[i].passed }

\* A clear_cooldown for this alert, or for all alerts, made after the i-th
\* send_alert call and before the k-th.
ClearedBetween(i, k) ==
    \E c \in DOMAIN am.clears :
        /\ am.clears[c].after >= i /\ am.clears[c].after < k
        /\ am.clears[c].alert_id \in { "", AlertId(am.sends[i].severity, am.sends[i].title) }

\* C39: send_alert starts the cooldown and appends to the history for every
\* alert that passes the cooldown check, before it tries a channel; it
\* returns False when every enabled channel failed or none is enabled; and
\* the same alert sent again within the cooldown window is suppressed with
\* no delivery attempt, also when the first one is still being delivered or
\* was delivered by no channel.
C39_CooldownBeforeDelivery ==
    am.made =>
        /\ Len(am.alert_history) = Cardinality(Passing(Len(am.sends)))
        /\ \A k \in DOMAIN am.sends :
              LET f == am.sends[k]
                  id == AlertId(f.severity, f.title)
              IN  /\ f.passed =>
                        /\ am.alert_history[Cardinality(Passing(k))] =
                              [ severity |-> f.severity, title |-> f.title,
                                message |-> f.message, alert_id |-> id ]
                        /\ ~ ClearedBetween(k, Len(am.sends) + 1) =>
                              Has(am.sent_alerts, id) /\ am.sent_alerts[id] >= f.at
                  /\ ( /\ f.passed /\ f.pc = "returned"
                       /\ f.email \in { "-", "failed" }
                       /\ f.webhook \in { "-", "failed" } ) => ~ f.result
                  /\ \A i \in 1..(k - 1) :
                        ( /\ am.sends[i].passed
                          /\ AlertId(am.sends[i].severity, am.sends[i].title) = id
                          /\ f.at - am.sends[i].at <= CooldownMinutes
                          /\ ~ ClearedBetween(i, k) )
                        => /\ ~ f.passed /\ f.pc = "returned" /\ ~ f.result
                           /\ f.email = "-" /\ f.webhook = "-"

\* Both channels failed for an alert, which returned False; the same alert
\* sent again at once was suppressed.
C39_Witness ==
    /\ am.made
    /\ Len(am.sends) = 2
    /\ am.sends[1].passed /\ am.sends[1].pc = "returned"
    /\ am.sends[1].email = "failed" /\ am.sends[1].webhook = "failed"
    /\ ~ am.sends[1].result
    /\ am.sends[2].message = am.sends[1].message
    /\ am.sends[2].severity = am.sends[1].severity
    /\ am.sends[2].at = am.sends[1].at
    /\ ~ am.sends[2].passed /\ am.sends[2].email = "-" /\ am.sends[2].webhook = "-"

\* The servers at the provider that no RecoveryState records.
Orphans ==
    { k \in DOMAIN servers : \A i \in DOMAIN heap : heap[i].new_server_id # servers[k].id }

\* The attempts that failed in provision_server while waiting for the
\* creation action or for port 22, that is, after servers.create returned.
FailedWaiting ==
    { i \in DOMAIN heap :
        /\ heap[i].failed_step = PROVISION_SERVER
        /\ heap[i].error \in { ActionFailed, ActionTimedOut, SshTimedOut } }

\* C40: a RecoveryState holds new_server_id and new_server_ip exactly when
\* the body of provision_server has returned; an attempt that failed in the
\* waits after the creation request has both unset while its server exists
\* at the provider, recorded by no state; and the RecoveryManager destroys
\* no server.
C40_ServerRecordedOnReturn ==
    /\ \A i \in DOMAIN heap :
          LET s == heap[i]
          IN  /\ (s.new_server_id # NoneId) <=> (s.new_server_ip # None)
              /\ (s.new_server_id # NoneId)
                    <=> (\E k \in DOMAIN s.completed_steps :
                            s.completed_steps[k] = PROVISION_SERVER)
              /\ s.new_server_id # NoneId =>
                    \E k \in DOMAIN servers :
                        servers[k].id = s.new_server_id /\ s.new_server_ip = IpOf(servers[k].id)
    /\ Cardinality(Orphans) >= Cardinality(FailedWaiting)
    /\ \A k \in DOMAIN servers : servers[k].alive

\* The wait for port 22 timed out: the attempt has failed with no server
\* recorded, and the server that was created is still there.
C40_Witness ==
    \E i \in DOMAIN heap :
        /\ heap[i].failed_step = PROVISION_SERVER
        /\ heap[i].error = SshTimedOut
        /\ heap[i].completed_at # NoneTime
        /\ heap[i].new_server_id = NoneId /\ heap[i].new_server_ip = None
        /\ \E k \in Orphans : servers[k].alive /\ servers[k].purpose = "gitlab-recovery"

====
